---- MODULE Spec2Model ----
(***************************************************************************)
(* Model of the face tracker of components/MeetingGuardian.tsx: the        *)
(* per-frame pass of analyzeFrame (age, greedy match, create, prune,       *)
(* emit), the body-language classifier, and the timer / promise scheduling *)
(* around it (startScreenShare, stopScreenShare, awaited face detection),   *)
(* and of components/cognitiveModel.ts: KalmanFilter and CognitiveModel.    *)
(*                                                                         *)
(* Numbers.  The program computes in IEEE doubles.  Here every pixel       *)
(* coordinate and every metric is a fixed-point integer in hundredths      *)
(* (Scale = 100: 50 px is 5000, a metric of 100 is 10000) and every        *)
(* product with a decimal weight is rounded to the nearest hundredth       *)
(* (Round), where the double is rounded to the nearest double.  Expression *)
(* confidences in [0,1] are integers in percent (0..100).                  *)
(* Indices.  Sequences start at 1, so the code's array index i is i+1 and  *)
(* its bestMatch = -1 ("none") is 0.                                       *)
(* Time.  Date.now() is the variable now, a clock that never runs          *)
(* backwards; it advances by one with every timer callback.                *)
(* Specifications.  Spec is a session with overlapping invocations, failed *)
(* detections and repeated start / stop; SpecRetire and SpecLong are       *)
(* sessions started once whose detections resolve before the next timer    *)
(* callback, long enough to retire a track and to fill a history;          *)
(* SpecSteps takes the pass one loop at a time; SpecLean is a session in   *)
(* which one face comes closer; SpecMatch takes the match loop one         *)
(* detection at a time; SpecClassify is one call of determineBodyLanguage, *)
(* SpecMetrics one call of the callback that computes the raw metrics;     *)
(* SpecEstimator constructs and updates CognitiveModel instances and       *)
(* SpecFilter constructs and calls KalmanFilter objects; SpecSuggest is a   *)
(* session in which the AI-suggestions button is clicked, SpecSmooth one   *)
(* in which a face moves past another, SpecAudio one in which speech       *)
(* recognition delivers transcripts; SpecAgent is the MeetingAgent         *)
(* component (startCapture, stopCapture, its requestAnimationFrame loop).  *)
(* Objects.  A track's box is an object that snapshots refer to: it is     *)
(* kept by reference (boxRef into boxObjects) next to its value; the       *)
(* KalmanFilter objects of a CognitiveModel are kept by reference too.     *)
(***************************************************************************)
EXTENDS Integers, Sequences, FiniteSets, TLC

VARIABLES
    trackedFaces,        \* trackedFacesRef.current
    nextPersonId,        \* nextPersonIdRef.current
    participants,        \* the participants state (last emitted snapshot list)
    detectedObjects,     \* detectedObjects of the pass applied last (matched, trackId set)
    now,                 \* Date.now(), in timer periods
    inflight,            \* analyzeFrame invocations that have begun and not ended
    applied,             \* arrival numbers of the invocations whose pass was applied, in order
    assignedIds,         \* every identity a track has been created with
    misses,              \* per identity: consecutive passes in which no detection matched it
    retired,             \* identities that went MAX_MISSING_FRAMES + 1 passes unmatched
    timers,              \* live setInterval handles
    analysisIntervalRef, \* analysisIntervalRef.current (0: null)
    nextHandle,          \* the handle the next setInterval returns
    isScreenSharing,     \* isScreenSharing state
    aiSuggestionsEnabled, \* aiSuggestionsEnabled state
    closures,            \* per setInterval handle: the aiSuggestionsEnabled its analyzeFrame closed over
    suggestions,         \* the suggestions state
    logs,                \* the logs state
    newSuggestions,      \* newSuggestions of the pass applied last
    currentLogs,         \* currentLogs of the pass applied last
    boxObjects,                \* the box objects a track or a snapshot refers to, by reference
    emitted,             \* every snapshot handed to setParticipants so far
    classifierInput,     \* the arguments of a call of determineBodyLanguage
    classifierLabel,     \* what the call returned ("": not called yet)
    filters,             \* the KalmanFilter objects constructed so far, by reference
    models,              \* the CognitiveModel instances constructed so far
    updateCall,          \* the last call of CognitiveModel.update (model 0: none yet)
    faceExpressions,     \* d.expressions of a detection handed to the map callback
    rawMetrics,          \* the metrics the callback computed for it (<< >>: not called yet)
    fedCount,            \* per KalmanFilter object called on its own: the calls of filter so far
    filterCall,          \* the last such call of KalmanFilter.filter (filter 0: none yet)
    toxicityEvents,      \* the toxicityEvents state
    results,             \* event.results.length: the transcripts recognition has delivered
    classifying,         \* onresult invocations awaiting toxicityModelRef.current.classify
    isLive,              \* MeetingAgent: the isLive state
    isConfirming,        \* MeetingAgent: the isConfirming state
    processingRef,       \* MeetingAgent: processingRef.current
    paused,              \* MeetingAgent: videoRef.current.paused
    srcObject,           \* MeetingAgent: videoRef.current.srcObject (0: null)
    metadataPending,     \* MeetingAgent: srcObject is set and loadedmetadata has not fired
    requesting,          \* MeetingAgent: startCapture invocations awaiting getDisplayMedia
    nextStream,          \* MeetingAgent: the stream the next grant returns
    frameRequests,       \* MeetingAgent: requestAnimationFrame callbacks not yet run
    data,                \* MeetingAgent: the data state (points by serial number)
    appended             \* MeetingAgent: calls of setData so far

vars == <<trackedFaces, nextPersonId, participants, detectedObjects, now, inflight,
          applied, assignedIds, misses, retired, timers, analysisIntervalRef, nextHandle, isScreenSharing,
          aiSuggestionsEnabled, closures, suggestions, logs, newSuggestions, currentLogs,
          boxObjects, emitted,
          classifierInput, classifierLabel, filters, models, updateCall,
          faceExpressions, rawMetrics, fedCount, filterCall,
          toxicityEvents, results, classifying,
          isLive, isConfirming, processingRef, paused, srcObject, metadataPending, requesting,
          nextStream, frameRequests, data, appended>>

(***************************************************************************)
(* Program constants                                                       *)
(***************************************************************************)
Scale == 10 * 10
MAX_MISSING_FRAMES == 5
MATCH_DISTANCE_THRESHOLD == 150
HISTORY_CAP == 30
NEW_SUGGESTIONS_KEPT == 4
SUGGESTIONS_CAP == 10
LOGS_CAP == 50

(***************************************************************************)
(* Bounds of the model                                                     *)
(***************************************************************************)
MaxTicks == 2        \* timer callbacks in a behaviour of Spec
MaxStepTicks == 3    \* timer callbacks in a behaviour of SpecSteps
MaxInflight == 2     \* analyzeFrame invocations suspended at once
MaxStarts == 2       \* setInterval calls in a behaviour
MaxRetireTicks == 8  \* timer callbacks in a behaviour of SpecRetire
MaxLongTicks == 32   \* timer callbacks in a behaviour of SpecLong

(***************************************************************************)
(* Arithmetic helpers                                                      *)
(***************************************************************************)
Abs(v) == IF v < 0 THEN -v ELSE v

\* n / d to the nearest integer (d > 0)
Round(n, d) == (2 * n + d) \div (2 * d)

Max(a, b) == IF a > b THEN a ELSE b
Min(a, b) == IF a < b THEN a ELSE b

\* fault: the upper clamp forgotten
ClampMut(v) == Max(0, v)
\* Math.max(0, Math.min(100, v)) on hundredths
Clamp(v) == Max(0, Min(100 * Scale, v))

\* old * 0.6 + new * 0.4
Smooth(old, new) == Round(6 * old + 4 * new, 10)

\* fault: the two weights exchanged
SlowAverageMut(old, new) == Round(old + 99 * new, 100)
\* old * 0.99 + new * 0.01
SlowAverage(old, new) == Round(99 * old + new, 100)

\* getDistance squared: Math.sqrt is monotone, so the code's comparisons of
\* distances are comparisons of these squares (hundredths squared)
getDistanceSq(x1, y1, x2, y2) == (x2 - x1) * (x2 - x1) + (y2 - y1) * (y2 - y1)

ThresholdSq == (MATCH_DISTANCE_THRESHOLD * Scale) * (MATCH_DISTANCE_THRESHOLD * Scale)

(***************************************************************************)
(* Detector output.  A raw detection is d.detection.box {x, y, width,      *)
(* height} (hundredths of a pixel) and d.expressions (percent).            *)
(***************************************************************************)
Expr(n, ha, sa, an, fe, di, su) ==
    [neutral |-> n, happy |-> ha, sad |-> sa, angry |-> an,
     fearful |-> fe, disgusted |-> di, surprised |-> su]

ExprNeutral == Expr(100, 0, 0, 0, 0, 0, 0)
ExprAllOnes == Expr(100, 100, 100, 100, 100, 100, 100)
ExprUpset   == Expr(0, 0, 100, 60, 40, 0, 0)

Raw(x, y, w, h, e) ==
    [x |-> x * Scale, y |-> y * Scale, width |-> w * Scale, height |-> h * Scale,
     expressions |-> e]

DetA == Raw(100, 100, 50, 50, ExprNeutral)   \* centre (125,125)
DetB == Raw(200, 100, 50, 50, ExprAllOnes)   \* centre (225,125): 100 px from DetA
DetC == Raw(350, 100, 50, 50, ExprUpset)     \* centre (375,125): 150 px from DetB
DetZ == Raw(150, 100, 0, 50, ExprNeutral)    \* a box of width 0

\* The detection lists a frame of Spec may carry
Frames == { <<DetA>>, <<DetA, DetB>>, <<DetC, DetZ>> }

(***************************************************************************)
(* analyzeFrame, lines 309-334: detections.map(d => ...)                   *)
(***************************************************************************)
RawAttention(e) ==
    Clamp((80 * e.neutral + 50 * e.surprised + 20 * e.happy)
          - (30 * e.sad + 30 * e.fearful + 20 * e.disgusted))

\* fault: sadness counted in full
RawStressMut(e) == Clamp(100 * (e.angry + e.fearful + e.disgusted + e.sad))
\* let stress = (expr.angry + expr.fearful + expr.disgusted + expr.sad * 0.5) * 100; clamped
RawStress(e) == Clamp(100 * (e.angry + e.fearful + e.disgusted) + 50 * e.sad)

RawCuriosity(e) == Clamp(100 * (e.surprised + e.happy))

DetectedObject(d) ==
    [box     |-> [x |-> d.x, y |-> d.y, w |-> d.width, h |-> d.height],
     center  |-> [x |-> d.x + Round(d.width, 2), y |-> d.y + Round(d.height, 2)],
     metrics |-> [attention |-> RawAttention(d.expressions),
                  stress    |-> RawStress(d.expressions),
                  curiosity |-> RawCuriosity(d.expressions)],
     matched |-> FALSE,
     trackId |-> 0]

\* The box of a detected object is an object of its own: the literal of line
\* 328, one per detection of an invocation.  A reference names the invocation
\* (its arrival number), the detection, and whether the object is that literal
\* or the literal of line 380 made when the detection was matched.
BoxLiteral(seq, i) == [seq |-> seq, det |-> i, smoothed |-> FALSE]

Allocated(o, ref) ==
    [box |-> o.box, boxRef |-> ref, center |-> o.center, metrics |-> o.metrics,
     matched |-> o.matched, trackId |-> o.trackId]

MapDetections(detections, seq) ==
    [i \in 1..Len(detections) |->
        Allocated(DetectedObject(detections[i]), BoxLiteral(seq, i))]

(***************************************************************************)
(* analyzeFrame, lines 336-339: every track ages by one frame              *)
(***************************************************************************)
\* fault: the age counted in timer periods of 2 frames
AgeTracksMut(tracks) ==
    [i \in 1..Len(tracks) |-> [tracks[i] EXCEPT !.missingFrames = @ + 2]]
\* trackedFacesRef.current.forEach(track => { track.missingFrames++ })
AgeTracks(tracks) ==
    [i \in 1..Len(tracks) |-> [tracks[i] EXCEPT !.missingFrames = @ + 1]]

(***************************************************************************)
(* analyzeFrame, lines 343-357: the search for bestMatch.  Every track of  *)
(* the list is a candidate; the running minimum starts at the threshold    *)
(* and is replaced on a strictly smaller distance.                         *)
(***************************************************************************)
TrackCenter(track) ==
    [x |-> track.box.x + Round(track.box.w, 2), y |-> track.box.y + Round(track.box.h, 2)]

RECURSIVE BestMatchFrom(_, _, _, _, _)
BestMatchFrom(tracks, detection, tIdx, minDist, bestMatch) ==
    IF tIdx > Len(tracks) THEN bestMatch
    ELSE LET c    == TrackCenter(tracks[tIdx])
             dist == getDistanceSq(detection.center.x, detection.center.y, c.x, c.y)
         IN  IF dist < minDist
             THEN BestMatchFrom(tracks, detection, tIdx + 1, dist, tIdx)
             ELSE BestMatchFrom(tracks, detection, tIdx + 1, minDist, bestMatch)

\* fault: of two tracks at the same distance the later one is taken
BestMatchMut(tracks, detection) ==
    LET dist(t) == getDistanceSq(detection.center.x, detection.center.y,
                                 TrackCenter(tracks[t]).x, TrackCenter(tracks[t]).y)
        near    == {t \in 1..Len(tracks) : dist(t) < ThresholdSq}
    IN  IF near = {} THEN 0
        ELSE CHOOSE t \in near :
                 \A u \in near : dist(t) < dist(u) \/ (dist(t) = dist(u) /\ t >= u)
\* let bestMatch = -1; let minDist = MATCH_DISTANCE_THRESHOLD; ... forEach
BestMatch(tracks, detection) == BestMatchFrom(tracks, detection, 1, ThresholdSq, 0)

(***************************************************************************)
(* analyzeFrame, lines 359-394: the update of a matched track              *)
(***************************************************************************)
HistoryEntry(detection, time) ==
    [x |-> detection.center.x, y |-> detection.center.y,
     w |-> detection.box.w, h |-> detection.box.h, time |-> time]

\* fault: the shift forgotten
PushHistoryMut(history, e) == Append(history, e)
\* history.push(e); if (history.length > 30) history.shift()
PushHistory(history, e) ==
    LET h == Append(history, e)
    IN  IF Len(h) > HISTORY_CAP THEN Tail(h) ELSE h

\* fault: the box smoothed in place (track.box.x = ..., as the metrics are)
SmoothedBoxRefMut(old, detectionRef) == old
\* track.box = { ... }: the track refers to a new object, the old one is not written
SmoothedBoxRef(old, detectionRef) == [detectionRef EXCEPT !.smoothed = TRUE]

UpdateTrack(track, detection, time) ==
    [track EXCEPT
        !.boxRef = SmoothedBoxRef(@, detection.boxRef),
        !.missingFrames = 0,
        !.lastSeen = time,
        !.history = PushHistory(@, HistoryEntry(detection, time)),
        !.baseline = [w |-> SlowAverage(@.w, detection.box.w),
                      y |-> SlowAverage(@.y, detection.box.y)],
        !.box = [x |-> Smooth(@.x, detection.box.x),
                 y |-> Smooth(@.y, detection.box.y),
                 w |-> Smooth(@.w, detection.box.w),
                 h |-> Smooth(@.h, detection.box.h)],
        !.metrics = [attention |-> Smooth(@.attention, detection.metrics.attention),
                     stress    |-> Smooth(@.stress, detection.metrics.stress),
                     curiosity |-> Smooth(@.curiosity, detection.metrics.curiosity)]]

(***************************************************************************)
(* analyzeFrame, lines 341-395: detectedObjects.forEach, in list order.    *)
(* The state threaded through the loop is the track list and the           *)
(* detection list (whose matched / trackId fields the loop sets).          *)
(***************************************************************************)
\* fault: an unmatched detection gets its track inside the match loop
MatchOneMut(st, i, time) ==
    LET detection == st.dets[i]
        bestMatch == BestMatch(st.tracks, detection)
        newId     == Len(st.tracks) + 1
    IN  IF bestMatch # 0
        THEN [tracks |-> [st.tracks EXCEPT
                             ![bestMatch] = UpdateTrack(@, detection, time)],
              dets   |-> [st.dets EXCEPT
                             ![i] = [@ EXCEPT !.matched = TRUE,
                                              !.trackId = st.tracks[bestMatch].id]]]
        ELSE [tracks |-> Append(st.tracks,
                          [id            |-> newId,
                           lastSeen      |-> time,
                           box           |-> detection.box,
                           boxRef        |-> detection.boxRef,
                           metrics       |-> detection.metrics,
                           missingFrames |-> 0,
                           history       |-> << HistoryEntry(detection, time) >>,
                           baseline      |-> [w |-> detection.box.w,
                                              y |-> detection.box.y]]),
              dets   |-> [st.dets EXCEPT
                             ![i] = [@ EXCEPT !.matched = TRUE, !.trackId = newId]]]
MatchOne(st, i, time) ==
    LET detection == st.dets[i]
        bestMatch == BestMatch(st.tracks, detection)
    IN  IF bestMatch # 0
        THEN [tracks |-> [st.tracks EXCEPT
                             ![bestMatch] = UpdateTrack(@, detection, time)],
              dets   |-> [st.dets EXCEPT
                             ![i] = [@ EXCEPT !.matched = TRUE,
                                              !.trackId = st.tracks[bestMatch].id]]]
        ELSE st

RECURSIVE MatchFrom(_, _, _)
MatchFrom(st, i, time) ==
    IF i > Len(st.dets) THEN st ELSE MatchFrom(MatchOne(st, i, time), i + 1, time)

MatchDetections(tracks, dets, time) ==
    MatchFrom([tracks |-> tracks, dets |-> dets], 1, time)

(***************************************************************************)
(* analyzeFrame, lines 397-418: a new track per unmatched detection        *)
(***************************************************************************)
\* fault: the baseline left at zero for the first match to fill
NewTrackMut(detection, newId, time) ==
    [id            |-> newId,
     lastSeen      |-> time,
     box           |-> detection.box,
     boxRef        |-> detection.boxRef,
     metrics       |-> detection.metrics,
     missingFrames |-> 0,
     history       |-> << HistoryEntry(detection, time) >>,
     baseline      |-> [w |-> 0, y |-> 0]]
\* the object literal of lines 401-415
NewTrack(detection, newId, time) ==
    [id            |-> newId,
     lastSeen      |-> time,
     box           |-> detection.box,
     boxRef        |-> detection.boxRef,
     metrics       |-> detection.metrics,
     missingFrames |-> 0,
     history       |-> << HistoryEntry(detection, time) >>,
     baseline      |-> [w |-> detection.box.w, y |-> detection.box.y]]

\* fault: the counter incremented before it is read
AllocIdMut(nextId) == [newId |-> nextId + 1, next |-> nextId + 1]
\* const newId = nextPersonIdRef.current++
AllocId(nextId) == [newId |-> nextId, next |-> nextId + 1]

CreateOne(st, i, time) ==
    IF ~ st.dets[i].matched
    THEN LET a == AllocId(st.nextId)
         IN  [tracks |-> Append(st.tracks, NewTrack(st.dets[i], a.newId, time)),
              dets   |-> [st.dets EXCEPT ![i] = [@ EXCEPT !.trackId = a.newId]],
              nextId |-> a.next]
    ELSE st

RECURSIVE CreateFrom(_, _, _)
CreateFrom(st, i, time) ==
    IF i > Len(st.dets) THEN st ELSE CreateFrom(CreateOne(st, i, time), i + 1, time)

CreateTracks(tracks, dets, nextId, time) ==
    CreateFrom([tracks |-> tracks, dets |-> dets, nextId |-> nextId], 1, time)

(***************************************************************************)
(* analyzeFrame, lines 420-421: prune                                      *)
(***************************************************************************)
\* fault: a tolerance one frame too long
KeepTrackMut(t) == t.missingFrames <= MAX_MISSING_FRAMES + 1
\* t => t.missingFrames <= MAX_MISSING_FRAMES
KeepTrack(t) == t.missingFrames <= MAX_MISSING_FRAMES

PruneTracks(tracks) == SelectSeq(tracks, KeepTrack)

(***************************************************************************)
(* determineBodyLanguage, lines 229-282.  avgMove = (moveX + moveY) /      *)
(* recent.length is compared without dividing: avgMove > 15 is             *)
(* moveX + moveY > 15 * recent.length.                                     *)
(***************************************************************************)
LastN(seq, n) ==
    IF Len(seq) <= n THEN seq ELSE SubSeq(seq, Len(seq) - n + 1, Len(seq))

RECURSIVE SumOver(_, _, _)
SumOver(f, lo, hi) == IF lo > hi THEN 0 ELSE f[lo] + SumOver(f, lo + 1, hi)

Moved(recent) ==
    SumOver([i \in 2..Len(recent) |->
                Abs(recent[i].x - recent[i-1].x) + Abs(recent[i].y - recent[i-1].y)],
            2, Len(recent))

Reversal(a, b, c) ==
    \/ (b - a > 0 /\ c - b < 0)
    \/ (b - a < 0 /\ c - b > 0)

VerticalReversals(recent) ==
    IF Len(recent) >= 4
    THEN Cardinality({i \in 2..(Len(recent) - 1) :
                         Reversal(recent[i-1].y, recent[i].y, recent[i+1].y)})
    ELSE 0

HorizontalReversals(recent) ==
    IF Len(recent) >= 4
    THEN Cardinality({i \in 2..(Len(recent) - 1) :
                         Reversal(recent[i-1].x, recent[i].x, recent[i+1].x)})
    ELSE 0

\* the conditions of lines 247, 250, 253, 272, 273, 277, 280
Fidgeting(metrics, recent) ==
    Moved(recent) > 15 * Scale * Len(recent) /\ metrics.stress > 60 * Scale

LeaningForward(metrics, currentBox, baseline) ==
    10 * currentBox.w > 12 * baseline.w /\ metrics.attention > 50 * Scale

Slouching(metrics, currentBox, baseline) ==
    10 * currentBox.y > 10 * baseline.y + 3 * baseline.w /\ metrics.attention < 40 * Scale

Nodding(metrics, recent) ==
    VerticalReversals(recent) >= 2 /\ metrics.attention > 60 * Scale

HeadShaking(metrics, recent) ==
    HorizontalReversals(recent) >= 2 /\ metrics.stress > 50 * Scale

ArmsCrossed(metrics, recent) ==
    metrics.stress > 75 * Scale /\ Moved(recent) < 2 * Scale * Len(recent)

Engaged(metrics) == metrics.attention > 80 * Scale

\* fault: the default states tested before the inferred postures
determineBodyLanguageMut(metrics, currentBox, history, baseline) ==
    IF Len(history) < 3 THEN "Listening"
    ELSE LET recent == LastN(history, 5)
         IN  IF Fidgeting(metrics, recent) THEN "Fidgeting"
             ELSE IF LeaningForward(metrics, currentBox, baseline) THEN "Leaning Forward"
             ELSE IF Slouching(metrics, currentBox, baseline) THEN "Slouching"
             ELSE IF Nodding(metrics, recent) THEN "Nodding"
             ELSE IF HeadShaking(metrics, recent) THEN "Head Shaking"
             ELSE IF Engaged(metrics) THEN "Engaged"
             ELSE IF ArmsCrossed(metrics, recent) THEN "Arms Crossed"
             ELSE "Listening"
\* the returns of lines 235-281, in the order of the code
determineBodyLanguage(metrics, currentBox, history, baseline) ==
    IF Len(history) < 3 THEN "Listening"
    ELSE LET recent == LastN(history, 5)
         IN  IF Fidgeting(metrics, recent) THEN "Fidgeting"
             ELSE IF LeaningForward(metrics, currentBox, baseline) THEN "Leaning Forward"
             ELSE IF Slouching(metrics, currentBox, baseline) THEN "Slouching"
             ELSE IF Nodding(metrics, recent) THEN "Nodding"
             ELSE IF HeadShaking(metrics, recent) THEN "Head Shaking"
             ELSE IF ArmsCrossed(metrics, recent) THEN "Arms Crossed"
             ELSE IF Engaged(metrics) THEN "Engaged"
             ELSE "Listening"

(***************************************************************************)
(* Arguments of determineBodyLanguage: metrics on both sides of every      *)
(* threshold, a box at and beyond the baseline, and histories of one to    *)
(* seven centres that stand still, drift, or swing by a small or a large   *)
(* step along either axis                                                  *)
(***************************************************************************)
MaxHistoryLen == 7

PathPoint(p, i) ==
    [x |-> (125 + (IF p.swing THEN (i % 2) * p.dx ELSE i * p.dx)) * Scale,
     y |-> (125 + (IF p.swing THEN (i % 2) * p.dy ELSE i * p.dy)) * Scale,
     w |-> 50 * Scale, h |-> 50 * Scale, time |-> i]

Path(p, len) == [i \in 1..len |-> PathPoint(p, i)]

Paths ==
    { [dx |-> 0, dy |-> 0, swing |-> FALSE],
      [dx |-> 20, dy |-> 0, swing |-> FALSE],
      [dx |-> 0, dy |-> 1, swing |-> TRUE],
      [dx |-> 1, dy |-> 0, swing |-> TRUE],
      [dx |-> 0, dy |-> 40, swing |-> TRUE],
      [dx |-> 40, dy |-> 0, swing |-> TRUE],
      [dx |-> 30, dy |-> 30, swing |-> TRUE] }

ClassifierInputs ==
    { [metrics    |-> [attention |-> a * Scale, stress |-> s * Scale, curiosity |-> 0],
       currentBox |-> [x |-> 100 * Scale, y |-> y * Scale, w |-> w * Scale, h |-> 50 * Scale],
       history    |-> Path(p, len),
       baseline   |-> [w |-> 50 * Scale, y |-> 100 * Scale]] :
      a \in {30, 45, 55, 70, 90}, s \in {20, 55, 70, 80},
      y \in {100, 120}, w \in {50, 65},
      p \in Paths, len \in 1..MaxHistoryLen }

(***************************************************************************)
(* analyzeFrame, lines 424-466: the snapshot list handed to                *)
(* setParticipants.  The identity "Person <id>" is kept as the number.     *)
(***************************************************************************)
\* fault: either sign alone taken for the bad sign
BadSignMut(metrics) == metrics.stress > 75 * Scale \/ metrics.attention < 35 * Scale
\* const badSign = t.metrics.stress > 75 && t.metrics.attention < 35, line 425
BadSign(metrics) == metrics.stress > 75 * Scale /\ metrics.attention < 35 * Scale

Snapshot(t) ==
    [id           |-> t.id,
     attention    |-> t.metrics.attention,
     stress       |-> t.metrics.stress,
     curiosity    |-> t.metrics.curiosity,
     badSign      |-> BadSign(t.metrics),
     bodyLanguage |-> determineBodyLanguage(t.metrics, t.box, t.history, t.baseline),
     box          |-> t.box,
     boxRef       |-> t.boxRef]

UiParticipants(tracks) == [i \in 1..Len(tracks) |-> Snapshot(tracks[i])]

(***************************************************************************)
(* analyzeFrame, lines 431-452 and 467-468: the suggestions and the log    *)
(* records of a pass, collected while the snapshot list is built.  A       *)
(* suggestion is kept as its kind and the identity of its person.          *)
(***************************************************************************)
\* fault: the test of the missing-counter dropped
ActiveThisFrameMut(t) == TRUE
\* t.missingFrames === 0, lines 432 and 440
ActiveThisFrame(t) == t.missingFrames = 0

FirstN(seq, n) == IF Len(seq) <= n THEN seq ELSE SubSeq(seq, 1, n)

\* Number(v.toFixed(1)): hundredths rounded to a whole number of tenths
ToFixed1(v) == Round(v, 10) * 10

SuggestionsFor(t, enabled) ==
    IF enabled /\ ActiveThisFrame(t)
    THEN LET bodyLang == determineBodyLanguage(t.metrics, t.box, t.history, t.baseline)
         IN  (IF t.metrics.attention < 35 * Scale
                THEN << [kind |-> "attention", id |-> t.id] >> ELSE << >>)
             \o (IF t.metrics.stress > 75 * Scale
                   THEN << [kind |-> "stress", id |-> t.id] >> ELSE << >>)
             \o (IF bodyLang = "Fidgeting"
                   THEN << [kind |-> "fidgeting", id |-> t.id] >> ELSE << >>)
             \o (IF bodyLang = "Slouching"
                   THEN << [kind |-> "slouching", id |-> t.id] >> ELSE << >>)
    ELSE << >>

LogsFor(t, time) ==
    IF ActiveThisFrame(t)
    THEN << [time         |-> time,
             participant  |-> t.id,
             attention    |-> ToFixed1(t.metrics.attention),
             stress       |-> ToFixed1(t.metrics.stress),
             curiosity    |-> ToFixed1(t.metrics.curiosity),
             badSign      |-> BadSign(t.metrics),
             bodyLanguage |-> determineBodyLanguage(t.metrics, t.box, t.history, t.baseline),
             toxicLabels  |-> ""] >>
    ELSE << >>

\* the arrays the map callback pushes to, track after track
RECURSIVE NewSuggestionsFrom(_, _, _)
NewSuggestionsFrom(tracks, i, enabled) ==
    IF i > Len(tracks) THEN << >>
    ELSE SuggestionsFor(tracks[i], enabled) \o NewSuggestionsFrom(tracks, i + 1, enabled)

RECURSIVE CurrentLogsFrom(_, _, _)
CurrentLogsFrom(tracks, i, time) ==
    IF i > Len(tracks) THEN << >>
    ELSE LogsFor(tracks[i], time) \o CurrentLogsFrom(tracks, i + 1, time)

\* fault: the first four of the pass kept (slice(0, 4))
SetSuggestionsMut(prev, new) ==
    IF Len(new) > 0
    THEN FirstN(FirstN(new, NEW_SUGGESTIONS_KEPT) \o prev, SUGGESTIONS_CAP)
    ELSE prev
\* setSuggestions(prev => [...newSuggestions.slice(-4), ...prev].slice(0, 10)),
\* called if newSuggestions is not empty
SetSuggestions(prev, new) ==
    IF Len(new) > 0
    THEN FirstN(LastN(new, NEW_SUGGESTIONS_KEPT) \o prev, SUGGESTIONS_CAP)
    ELSE prev

\* setLogs(prev => [...prev, ...currentLogs].slice(-50))
SetLogs(prev, current) == LastN(prev \o current, LOGS_CAP)

\* lines 424-468 on the pruned track list: what the pass leaves in the feeds
EmitFeeds(tracks, enabled, time, prevSuggestions, prevLogs) ==
    LET new     == NewSuggestionsFrom(tracks, 1, enabled)
        current == CurrentLogsFrom(tracks, 1, time)
    IN  [newSuggestions |-> new,
         currentLogs    |-> current,
         suggestions    |-> SetSuggestions(prevSuggestions, new),
         logs           |-> SetLogs(prevLogs, current)]

(***************************************************************************)
(* analyzeFrame, lines 304-468: the synchronous pass that follows the      *)
(* awaited detection, as a function of the state it reads.                 *)
(***************************************************************************)
\* fault: the snapshot list built from the list as it was before the prune
PruneAndEmitMut(tracks) ==
    [tracks |-> PruneTracks(tracks), participants |-> UiParticipants(tracks)]
\* lines 420-466: prune, then build the snapshot list from the pruned list
PruneAndEmit(tracks) ==
    LET kept == PruneTracks(tracks)
    IN  [tracks |-> kept, participants |-> UiParticipants(kept)]

FramePass(tracks, nextId, detections, time, seq) ==
    LET dets    == MapDetections(detections, seq)
        aged    == AgeTracks(tracks)
        matched == MatchDetections(aged, dets, time)
        created == CreateTracks(matched.tracks, matched.dets, nextId, time)
        out     == PruneAndEmit(created.tracks)
    IN  [tracks |-> out.tracks, participants |-> out.participants,
         dets |-> created.dets, nextId |-> created.nextId]

(***************************************************************************)
(* cognitiveModel.ts.  Metrics, filter estimates and covariances are       *)
(* fixed-point integers in thousandths (Milli), so that toFixed(2) has     *)
(* digits to round away; the Kalman gain is kept to four decimals          *)
(* (GainScale).  Angles are whole degrees, ear is in hundredths, blinkRate *)
(* in blinks per minute, expression confidences in percent.                *)
(***************************************************************************)
Milli == 10 * 10 * 10
GainScale == 10 * Milli

\* the largest r in lo..hi with r * r <= n
RECURSIVE SqrtBetween(_, _, _)
SqrtBetween(n, lo, hi) ==
    IF lo >= hi THEN lo
    ELSE LET mid == (lo + hi + 1) \div 2
         IN  IF mid * mid <= n THEN SqrtBetween(n, mid, hi) ELSE SqrtBetween(n, lo, mid - 1)

\* Math.sqrt to the nearest integer (n < 2^31)
Sqrt(n) ==
    LET r == SqrtBetween(n, 0, 46340)
    IN  IF n - r * r > r THEN r + 1 ELSE r

\* Math.pow(a, 1.5) in thousandths, for a whole number a >= 0: a * sqrt(a)
Pow15(a) == a * Sqrt(a * Milli * Milli)

\* fault: the upper limit forgotten
Clamp100Mut(v) == Max(0, v)
\* Math.max(0, Math.min(100, v)) on thousandths
Clamp100(v) == Max(0, Min(100 * Milli, v))

\* parseFloat(v.toFixed(2)): thousandths rounded to a whole number of hundredths
ToFixed2(v) == Round(v, 10) * 10

(***************************************************************************)
(* class KalmanFilter, lines 5-33.  isNaN stands for isNaN(this.x): x and  *)
(* cov are NaN from construction until the first call of filter, and x is  *)
(* NaN again after a call whose measurement is NaN; the number field x     *)
(* means nothing while isNaN holds.  A measurement is a number in          *)
(* thousandths or NaN, kept as an integer no computation here yields.      *)
(***************************************************************************)
NaN == 0 - 1000000000

IsNaN(v) == v = NaN

NewKalmanFilter(processNoise, measurementNoise) ==
    [R |-> processNoise, Q |-> measurementNoise, A |-> 1, B |-> 0, C |-> 1,
     cov |-> 0, x |-> 0, isNaN |-> TRUE]

\* fault: the predicted covariance left out of the innovation covariance
GainMut(predCov, C, Q) == Round(predCov * C * GainScale, Q)
\* K = predCov * C * (1 / ((C * predCov * C) + Q)), line 27
Gain(predCov, C, Q) == Round(predCov * C * GainScale, C * predCov * C + Q)

\* the filter object after filter(measurement); the call returns its x.  With
\* a measurement of NaN both branches assign NaN to x (lines 21 and 28); cov
\* does not depend on the measurement.
filter(f, measurement) ==
    IF f.isNaN
    THEN [f EXCEPT !.x = IF IsNaN(measurement) THEN @ ELSE measurement \div f.C,
                   !.cov = (f.Q \div f.C) \div f.C,
                   !.isNaN = IsNaN(measurement)]
    ELSE LET predX   == f.A * f.x + f.B * 0
             predCov == f.A * f.cov * f.A + f.R
             K       == Gain(predCov, f.C, f.Q)
         IN  [f EXCEPT !.x = IF IsNaN(measurement) THEN @
                             ELSE predX + Round(K * (measurement - f.C * predX), GainScale),
                       !.cov = predCov - Round(K * f.C * predCov, GainScale),
                       !.isNaN = IsNaN(measurement)]

(***************************************************************************)
(* class CognitiveModel, lines 61-77: new CognitiveModel().  The field     *)
(* initialisers construct three KalmanFilter objects of the instance's     *)
(* own; heapLen is the number of filter objects that exist already.        *)
(***************************************************************************)
\* fault: the three filters constructed once and shared by every instance
FilterRefsMut(heapLen) ==
    [attentionFilter |-> 1, stressFilter |-> 2, flowFilter |-> 3]
\* the references the fields of a new instance hold
FilterRefs(heapLen) ==
    [attentionFilter |-> heapLen + 1, stressFilter |-> heapLen + 2, flowFilter |-> heapLen + 3]

NewFilters ==
    << NewKalmanFilter(100, 10 * Milli),    \* new KalmanFilter(0.1, 10)
       NewKalmanFilter(100, 5 * Milli),     \* new KalmanFilter(0.1, 5)
       NewKalmanFilter(10, 1 * Milli) >>    \* new KalmanFilter(0.01, 1)

NewCognitiveModel(heapLen, time) ==
    LET refs == FilterRefs(heapLen)
    IN  [state |-> [attention |-> 50 * Milli, stress |-> 30 * Milli,
                    curiosity |-> 60 * Milli, flowState |-> 0, lastUpdate |-> time],
         attentionFilter |-> refs.attentionFilter,
         stressFilter    |-> refs.stressFilter,
         flowFilter      |-> refs.flowFilter]

(***************************************************************************)
(* CognitiveModel.update, lines 79-147, as a function of the instance, the *)
(* filter objects and the input: the instance and the filter objects after *)
(* the call, the point it returns, and the measurements it fed             *)
(***************************************************************************)
RawGeometricAttention(input) ==
    LET yawPenalty   == Pow15(Abs(input.yaw))
        pitchPenalty == Pow15(Abs(input.pitch - 5))
        base         == 100 * Milli - (yawPenalty + pitchPenalty)
    IN  Clamp100(IF input.ear < 15 THEN base - 40 * Milli ELSE base)

StressBase(input) ==
    LET e == input.expressionConfidence
    IN  30 * Milli
        + (IF input.blinkRate > 25 THEN 20 * Milli
           ELSE IF input.blinkRate < 5 THEN 10 * Milli ELSE 0)
        + e.angry * 400 + e.fearful * 500 - e.happy * 200

\* fault: the attention of line 124 taken before the filter (rawAttention)
CuriosityBaseMut(input, smoothedAttention) ==
    LET e == input.expressionConfidence
    IN  50 * Milli
        + (IF RawGeometricAttention(input) > 70 * Milli THEN 10 * Milli ELSE 0)
        + (IF input.pitch < -5 /\ input.pitch > -20 THEN 15 * Milli ELSE 0)
        + e.surprised * 400 + e.happy * 100
\* curiosityBase of lines 123-132
CuriosityBase(input, smoothedAttention) ==
    LET e == input.expressionConfidence
    IN  50 * Milli
        + (IF smoothedAttention > 70 * Milli THEN 10 * Milli ELSE 0)
        + (IF input.pitch < -5 /\ input.pitch > -20 THEN 15 * Milli ELSE 0)
        + e.surprised * 400 + e.happy * 100

update(m, heap, input, time) ==
    LET rawAttention      == RawGeometricAttention(input)
        heap1             == [heap EXCEPT ![m.attentionFilter] = filter(@, rawAttention)]
        smoothedAttention == heap1[m.attentionFilter].x
        rawStress         == Clamp100(StressBase(input))
        heap2             == [heap1 EXCEPT ![m.stressFilter] = filter(@, rawStress)]
        smoothedStress    == heap2[m.stressFilter].x
        curiosityBase     == CuriosityBase(input, smoothedAttention)
        smoothedCuriosity == Clamp100(curiosityBase)
        state             == [m.state EXCEPT !.lastUpdate = time,
                                             !.attention = smoothedAttention,
                                             !.stress = smoothedStress,
                                             !.curiosity = smoothedCuriosity]
    IN  [model   |-> [m EXCEPT !.state = state],
         filters |-> heap2,
         fed     |-> [attention |-> rawAttention, stress |-> rawStress,
                      curiosity |-> curiosityBase],
         point   |-> [time      |-> time,
                      attention |-> ToFixed2(state.attention),
                      stress    |-> ToFixed2(state.stress),
                      curiosity |-> ToFixed2(state.curiosity)]]

(***************************************************************************)
(* BiometricInput values: looking straight, looking away with closed eyes, *)
(* leaning in delighted, every expression at full confidence, a glance     *)
(* aside                                                                   *)
(***************************************************************************)
Confidence(n, ha, an, fe, su) ==
    [neutral |-> n, happy |-> ha, angry |-> an, fearful |-> fe, surprised |-> su]

Biometric(yaw, pitch, ear, blinkRate, e) ==
    [yaw |-> yaw, pitch |-> pitch, ear |-> ear, blinkRate |-> blinkRate,
     expressionConfidence |-> e]

BiometricInputs ==
    { Biometric(0, 5, 30, 15, Confidence(100, 0, 0, 0, 0)),
      Biometric(90, -40, 10, 30, Confidence(0, 0, 100, 100, 0)),
      Biometric(0, -10, 30, 3, Confidence(0, 100, 0, 0, 100)),
      Biometric(-10, 5, 30, 15, Confidence(100, 100, 100, 100, 100)) }

(***************************************************************************)
(* The box objects after the writes of a pass: the object each track       *)
(* refers to holds the track's box; every other object is as it was        *)
(***************************************************************************)
HeapAfter(h, tracks) ==
    [ref \in (DOMAIN h) \cup {tracks[i].boxRef : i \in 1..Len(tracks)} |->
        IF \E i \in 1..Len(tracks) : tracks[i].boxRef = ref
        THEN (CHOOSE t \in {tracks[i] : i \in 1..Len(tracks)} : t.boxRef = ref).box
        ELSE h[ref]]

Emitted(list) == {list[i] : i \in 1..Len(list)}

(***************************************************************************)
(* Observers of a pass, for the properties below                           *)
(***************************************************************************)
Ids(tracks) == {tracks[i].id : i \in 1..Len(tracks)}

MatchedIds(dets) == {dets[i].trackId : i \in {j \in 1..Len(dets) : dets[j].matched}}

CreatedIds(dets) == {dets[i].trackId : i \in {j \in 1..Len(dets) : ~ dets[j].matched}}

\* the run of unmatched passes of each identity that was live when the pass began
MissesAfter(ms, live, dets) ==
    [id \in (DOMAIN ms) \cup CreatedIds(dets) |->
        IF id \in MatchedIds(dets) \cup CreatedIds(dets) THEN 0
        ELSE IF id \in live THEN Min(ms[id] + 1, MAX_MISSING_FRAMES + 1)
        ELSE ms[id]]

(***************************************************************************)
(* Initial state: the refs and state of a freshly mounted component        *)
(* (lines 90-105)                                                          *)
(***************************************************************************)
Mounted ==
    /\ trackedFaces = << >>
    /\ nextPersonId = 1
    /\ participants = << >>
    /\ detectedObjects = << >>
    /\ now = 0
    /\ inflight = {}
    /\ applied = << >>
    /\ assignedIds = {}
    /\ misses = << >>
    /\ retired = {}
    /\ timers = {}
    /\ analysisIntervalRef = 0
    /\ nextHandle = 1
    /\ isScreenSharing = FALSE
    /\ aiSuggestionsEnabled = TRUE
    /\ closures = << >>
    /\ suggestions = << >>
    /\ logs = << >>
    /\ newSuggestions = << >>
    /\ currentLogs = << >>
    /\ boxObjects = << >>
    /\ emitted = {}
    /\ toxicityEvents = << >>
    /\ results = 0
    /\ classifying = 0

\* MeetingAgent after mount, lines 885-895
AgentMounted ==
    /\ isLive = FALSE
    /\ isConfirming = FALSE
    /\ processingRef = FALSE
    /\ paused = TRUE
    /\ srcObject = 0
    /\ metadataPending = FALSE
    /\ requesting = 0
    /\ nextStream = 1
    /\ frameRequests = 0
    /\ data = << >>
    /\ appended = 0

\* no call of the pure functions modelled on their own has been made
NoCalls ==
    /\ classifierInput = CHOOSE in \in ClassifierInputs : TRUE
    /\ classifierLabel = ""
    /\ filters = << >>
    /\ models = << >>
    /\ updateCall = [model |-> 0]
    /\ faceExpressions = ExprNeutral
    /\ rawMetrics = << >>
    /\ fedCount = << >>
    /\ filterCall = [filter |-> 0]

Init == Mounted /\ AgentMounted /\ NoCalls

classifierVars == <<classifierInput, classifierLabel>>
estimatorVars == <<filters, models, updateCall>>
metricVars == <<faceExpressions, rawMetrics>>
filterVars == <<fedCount, filterCall>>
audioVars == <<toxicityEvents, results, classifying>>
agentVars == <<isLive, isConfirming, processingRef, paused, srcObject, metadataPending, requesting,
               nextStream, frameRequests, data, appended>>
callVars == <<classifierVars, estimatorVars, metricVars, filterVars, audioVars, agentVars>>
componentVars == <<trackedFaces, nextPersonId, participants, detectedObjects, now, inflight,
                   applied, assignedIds, misses, retired, timers, analysisIntervalRef,
                   nextHandle, isScreenSharing,
                   aiSuggestionsEnabled, closures, suggestions, logs, newSuggestions, currentLogs,
                   boxObjects, emitted>>
objectVars == <<boxObjects, emitted>>
feedVars == <<suggestions, logs, newSuggestions, currentLogs>>
uiVars == <<aiSuggestionsEnabled, closures>>
trackerVars == <<trackedFaces, nextPersonId, participants, detectedObjects,
                 applied, assignedIds, misses, retired>>
shareVars == <<timers, analysisIntervalRef, nextHandle, isScreenSharing>>

(***************************************************************************)
(* Scheduling.  Callbacks run to completion on one thread: another         *)
(* callback can run only while no invocation of analyzeFrame is between    *)
(* two of its awaits.  An invocation is a record [seq, stage, dets]: its   *)
(* arrival number, its position, and its local detectedObjects.            *)
(***************************************************************************)
\* fault: an await between the match loop and the create loop
AwaitPointsMut == {"ssd", "tiny", "matched"}
\* the positions at which analyzeFrame is suspended: the awaits of lines 290, 296
AwaitPoints == {"ssd", "tiny"}

\* the positions inside the synchronous pass of lines 336-466
PassStages == {"aged", "matched", "created"}

Running == {inv \in inflight : inv.stage \notin AwaitPoints}

Idle == Running = {}

CanRun(inv) == Running \subseteq {inv}

(***************************************************************************)
(* startScreenShare, lines 176-206: the part after the awaited             *)
(* getDisplayMedia (lines 184-200).  The button is rendered while          *)
(* isScreenSharing is false, and each click suspends at the await without  *)
(* touching any state, so a grant can arrive in any state that follows a   *)
(* click; a second grant while sharing is a double click granted twice.    *)
(* A rejected getDisplayMedia (lines 202-205) changes none of the state    *)
(* below.                                                                  *)
(***************************************************************************)
StartUpTo(maxStarts) ==
    /\ Idle
    /\ nextHandle <= maxStarts
    /\ isScreenSharing' = TRUE
    /\ timers' = timers \cup {nextHandle}
    /\ analysisIntervalRef' = nextHandle
    /\ nextHandle' = nextHandle + 1
    /\ closures' = Append(closures, aiSuggestionsEnabled)
    /\ UNCHANGED <<callVars, objectVars, feedVars, aiSuggestionsEnabled, trackerVars, now, inflight>>

(***************************************************************************)
(* stopScreenShare, lines 208-221: the stop button, the stream's onended   *)
(* or the unmount cleanup, once a stream has been obtained                 *)
(***************************************************************************)
\* fault: the identity counter reset with the track set
StopResetMut(nextId) == 1
\* nextPersonIdRef.current after stopScreenShare: the function does not assign it
StopReset(nextId) == nextId

StopScreenShare ==
    /\ Idle
    /\ nextHandle > 1
    /\ timers' = timers \ {analysisIntervalRef}
    /\ isScreenSharing' = FALSE
    /\ trackedFaces' = << >>
    /\ participants' = << >>
    /\ nextPersonId' = StopReset(nextPersonId)
    /\ UNCHANGED <<callVars, objectVars, feedVars, uiVars, detectedObjects, applied, assignedIds, misses, retired, now, inflight,
                   analysisIntervalRef, nextHandle>>

(***************************************************************************)
(* analyzeFrame, lines 284-302: the timer callback up to the first await.  *)
(* The guard of line 285 holds while the component is mounted with its     *)
(* models loaded, which is when the interval can have been started.        *)
(***************************************************************************)
TickUpTo(maxTicks, maxInflight) ==
    /\ Idle
    /\ timers # {}
    /\ now < maxTicks
    /\ Cardinality(inflight) < maxInflight
    /\ now' = now + 1
    /\ \E h \in timers :
          inflight' = inflight \cup {[seq |-> now + 1, stage |-> "ssd", dets |-> << >>,
                                      suggest |-> closures[h]]}
    /\ UNCHANGED <<callVars, objectVars, feedVars, uiVars, trackerVars, shareVars>>

\* the SSD detection rejected: the catch of lines 294-300 awaits TinyFace
SsdFailed ==
    \E inv \in inflight :
        /\ Idle
        /\ inv.stage = "ssd"
        /\ inflight' = (inflight \ {inv}) \cup {[inv EXCEPT !.stage = "tiny"]}
        /\ UNCHANGED <<callVars, objectVars, feedVars, uiVars, trackerVars, shareVars, now>>

\* the fallback rejected too: the invocation ends with no pass
TinyFailed ==
    \E inv \in inflight :
        /\ Idle
        /\ inv.stage = "tiny"
        /\ inflight' = inflight \ {inv}
        /\ UNCHANGED <<callVars, objectVars, feedVars, uiVars, trackerVars, shareVars, now>>

(***************************************************************************)
(* analyzeFrame, lines 302-468: an awaited detection resolved; the pass    *)
(***************************************************************************)
ApplyPass(inv, detections) ==
    \E r \in {FramePass(trackedFaces, nextPersonId, detections, now, inv.seq)} :
    \E ms \in {MissesAfter(misses, Ids(trackedFaces), r.dets)} :
    \E feeds \in {EmitFeeds(r.tracks, inv.suggest, now, suggestions, logs)} :
        /\ trackedFaces' = r.tracks
        /\ suggestions' = feeds.suggestions
        /\ logs' = feeds.logs
        /\ newSuggestions' = feeds.newSuggestions
        /\ currentLogs' = feeds.currentLogs
        /\ boxObjects' = HeapAfter(boxObjects, r.tracks)
        /\ emitted' = emitted \cup Emitted(r.participants)
        /\ nextPersonId' = r.nextId
        /\ participants' = r.participants
        /\ detectedObjects' = r.dets
        /\ applied' = Append(applied, inv.seq)
        /\ assignedIds' = assignedIds \cup CreatedIds(r.dets)
        /\ misses' = ms
        /\ retired' = retired \cup {id \in DOMAIN ms : ms[id] > MAX_MISSING_FRAMES}
        /\ inflight' = inflight \ {inv}
        /\ UNCHANGED <<callVars, uiVars, shareVars, now>>

ResolvedWith(frames) ==
    \E inv \in inflight : \E detections \in frames :
        /\ Idle
        /\ ApplyPass(inv, detections)

(***************************************************************************)
(* Spec: a session with frames of Frames                                   *)
(***************************************************************************)
StartScreenShare == StartUpTo(MaxStarts)

Tick == TickUpTo(MaxTicks, MaxInflight)

DetectionResolved == ResolvedWith(Frames)

Next ==
    \/ StartScreenShare
    \/ StopScreenShare
    \/ Tick
    \/ SsdFailed
    \/ TinyFailed
    \/ DetectionResolved

Spec == Init /\ [][Next]_vars

(***************************************************************************)
(* SpecRetire: one session in which every detection resolves before the    *)
(* next timer callback, long enough for a track to be retired              *)
(***************************************************************************)
RetireFrames == { <<>>, <<DetA>>, <<DetC>> }

StartOnce == StartUpTo(1)

TickRetire == TickUpTo(MaxRetireTicks, 1)

ResolvedRetire == ResolvedWith(RetireFrames)

NextRetire ==
    \/ StartOnce
    \/ StopScreenShare
    \/ TickRetire
    \/ ResolvedRetire

SpecRetire == Init /\ [][NextRetire]_vars

(***************************************************************************)
(* SpecLong: one session in which the same face is detected in every       *)
(* frame, long enough for a history to fill                                *)
(***************************************************************************)
LongFrames == { <<DetA>> }

TickLong == TickUpTo(MaxLongTicks, 1)

ResolvedLong == ResolvedWith(LongFrames)

NextLong ==
    \/ StartOnce
    \/ StopScreenShare
    \/ TickLong
    \/ ResolvedLong

SpecLong == Init /\ [][NextLong]_vars

(***************************************************************************)
(* SpecSteps: the pass of lines 336-466 taken one loop at a time (age,     *)
(* match, create, prune and emit), each step on the refs as they are then, *)
(* so that what may run between two steps is decided by Running            *)
(***************************************************************************)
StepFrames == { <<DetA>>, <<DetA, DetB>>, <<DetC>> }

TickSteps == TickUpTo(MaxStepTicks, MaxInflight)

\* an awaited detection resolved: lines 302-339
StepBegin ==
    \E inv \in inflight : \E detections \in StepFrames :
        /\ inv.stage \in {"ssd", "tiny"}
        /\ CanRun(inv)
        /\ trackedFaces' = AgeTracks(trackedFaces)
        /\ inflight' = (inflight \ {inv})
                          \cup {[inv EXCEPT !.stage = "aged",
                                            !.dets = MapDetections(detections, inv.seq)]}
        /\ UNCHANGED <<callVars, objectVars, feedVars, uiVars, nextPersonId, participants, detectedObjects, applied,
                       assignedIds, misses, retired, shareVars, now>>

\* lines 341-395
StepMatch ==
    \E inv \in inflight :
        /\ inv.stage = "aged"
        /\ CanRun(inv)
        /\ \E m \in {MatchDetections(trackedFaces, inv.dets, now)} :
              /\ trackedFaces' = m.tracks
              /\ boxObjects' = HeapAfter(boxObjects, m.tracks)
              /\ inflight' = (inflight \ {inv})
                                \cup {[inv EXCEPT !.stage = "matched", !.dets = m.dets]}
        /\ UNCHANGED <<callVars, emitted, feedVars, uiVars, nextPersonId, participants, detectedObjects, applied,
                       assignedIds, misses, retired, shareVars, now>>

\* lines 397-418
StepCreate ==
    \E inv \in inflight :
        /\ inv.stage = "matched"
        /\ CanRun(inv)
        /\ \E c \in {CreateTracks(trackedFaces, inv.dets, nextPersonId, now)} :
              /\ trackedFaces' = c.tracks
              /\ nextPersonId' = c.nextId
              /\ boxObjects' = HeapAfter(boxObjects, c.tracks)
              /\ inflight' = (inflight \ {inv})
                                \cup {[inv EXCEPT !.stage = "created", !.dets = c.dets]}
        /\ UNCHANGED <<callVars, emitted, feedVars, uiVars, participants, detectedObjects, applied,
                       assignedIds, misses, retired, shareVars, now>>

\* lines 420-468
StepEmit ==
    \E inv \in inflight :
        /\ inv.stage = "created"
        /\ CanRun(inv)
        /\ \E out \in {PruneAndEmit(trackedFaces)} :
           \E ms \in {MissesAfter(misses, Ids(trackedFaces) \ CreatedIds(inv.dets),
                                  inv.dets)} :
           \E feeds \in {EmitFeeds(out.tracks, inv.suggest, now, suggestions, logs)} :
              /\ trackedFaces' = out.tracks
              /\ suggestions' = feeds.suggestions
              /\ logs' = feeds.logs
              /\ newSuggestions' = feeds.newSuggestions
              /\ currentLogs' = feeds.currentLogs
              /\ participants' = out.participants
              /\ emitted' = emitted \cup Emitted(out.participants)
              /\ detectedObjects' = inv.dets
              /\ applied' = Append(applied, inv.seq)
              /\ assignedIds' = assignedIds \cup CreatedIds(inv.dets)
              /\ misses' = ms
              /\ retired' = retired \cup {id \in DOMAIN ms : ms[id] > MAX_MISSING_FRAMES}
              /\ inflight' = inflight \ {inv}
        /\ UNCHANGED <<callVars, uiVars, boxObjects, nextPersonId, shareVars, now>>

NextSteps ==
    \/ StartOnce
    \/ StopScreenShare
    \/ TickSteps
    \/ SsdFailed
    \/ TinyFailed
    \/ StepBegin
    \/ StepMatch
    \/ StepCreate
    \/ StepEmit

SpecSteps == Init /\ [][NextSteps]_vars

(***************************************************************************)
(* SpecLean: one session in which one face with a neutral expression       *)
(* (attention 80, stress 0) stays at (100, 100) and comes closer: the      *)
(* width of its box never shrinks from one frame to the next               *)
(***************************************************************************)
MaxLeanTicks == 6    \* timer callbacks in a behaviour of SpecLean

LeanWidths == {50, 52, 53, 54, 56, 58, 59, 62, 65}

LeanFrames == { << Raw(100, 100, w, 50, ExprNeutral) >> : w \in LeanWidths }

Approaching(detections) ==
    \/ trackedFaces = << >>
    \/ LET history == trackedFaces[1].history
       IN  detections[1].width >= history[Len(history)].w

TickLean == TickUpTo(MaxLeanTicks, 1)

ResolvedLean == ResolvedWith({detections \in LeanFrames : Approaching(detections)})

NextLean ==
    \/ StartOnce
    \/ StopScreenShare
    \/ TickLean
    \/ ResolvedLean

SpecLean == Init /\ [][NextLean]_vars

(***************************************************************************)
(* SpecClassify: one call of determineBodyLanguage on arguments of         *)
(* ClassifierInputs                                                        *)
(***************************************************************************)
InitClassify ==
    /\ Mounted
    /\ AgentMounted
    /\ classifierInput \in ClassifierInputs
    /\ classifierLabel = ""
    /\ filters = << >>
    /\ models = << >>
    /\ updateCall = [model |-> 0]
    /\ faceExpressions = ExprNeutral
    /\ rawMetrics = << >>
    /\ fedCount = << >>
    /\ filterCall = [filter |-> 0]

Classify ==
    /\ classifierLabel = ""
    /\ classifierLabel' = determineBodyLanguage(classifierInput.metrics,
                                                classifierInput.currentBox,
                                                classifierInput.history,
                                                classifierInput.baseline)
    /\ UNCHANGED <<classifierInput, estimatorVars, metricVars, filterVars, audioVars, agentVars,
                   componentVars>>

NextClassify == Classify

SpecClassify == InitClassify /\ [][NextClassify]_vars

(***************************************************************************)
(* SpecEstimator: CognitiveModel instances are constructed and updated in  *)
(* any order on inputs of BiometricInputs; Date.now() advances by one with *)
(* every update                                                            *)
(***************************************************************************)
MaxModels == 2       \* CognitiveModel instances constructed in a behaviour
MaxUpdates == 4      \* calls of update in a behaviour

Construct ==
    /\ Len(models) < MaxModels
    /\ models' = Append(models, NewCognitiveModel(Len(filters), now))
    /\ filters' = filters \o NewFilters
    /\ UNCHANGED <<updateCall, now, classifierVars, metricVars, filterVars, audioVars, agentVars, trackerVars, shareVars, feedVars, uiVars, objectVars, inflight>>

Update ==
    \E i \in 1..Len(models) : \E input \in BiometricInputs :
        /\ now < MaxUpdates
        /\ now' = now + 1
        /\ \E r \in {update(models[i], filters, input, now + 1)} :
              /\ models' = [models EXCEPT ![i] = r.model]
              /\ filters' = r.filters
              /\ updateCall' = [model |-> i, input |-> input, before |-> filters,
                                fed |-> r.fed, point |-> r.point]
        /\ UNCHANGED <<classifierVars, metricVars, filterVars, audioVars, agentVars, trackerVars, shareVars, feedVars, uiVars, objectVars, inflight>>

NextEstimator ==
    \/ Construct
    \/ Update

SpecEstimator == Init /\ [][NextEstimator]_vars

(***************************************************************************)
(* SpecMatch: one session in which the loop of lines 342-395 is taken one  *)
(* detection at a time, on frames with a detection half way between two    *)
(* tracks and a detection 150 px from the nearest track.  The invocation   *)
(* record carries the index of the detection the loop is at (matchIdx).    *)
(***************************************************************************)
MaxMatchTicks == 3   \* timer callbacks in a behaviour of SpecMatch

DetM == Raw(150, 100, 50, 50, ExprNeutral)   \* centre (175,125): 50 px from DetA and from DetB

MatchFrames == { <<DetA, DetB>>, <<DetM>>, <<DetC>>, <<DetM, DetA>> }

TickMatch == TickUpTo(MaxMatchTicks, 1)

\* an awaited detection resolved: lines 302-339
MatchBegin ==
    \E inv \in inflight : \E detections \in MatchFrames :
        /\ inv.stage \in AwaitPoints
        /\ CanRun(inv)
        /\ trackedFaces' = AgeTracks(trackedFaces)
        /\ inflight' = (inflight \ {inv})
                          \cup {[seq |-> inv.seq, stage |-> "aged",
                                 dets |-> MapDetections(detections, inv.seq),
                                 suggest |-> inv.suggest, matchIdx |-> 1]}
        /\ UNCHANGED <<callVars, objectVars, feedVars, uiVars, nextPersonId, participants,
                       detectedObjects, applied, assignedIds, misses, retired, shareVars, now>>

\* lines 342-395: the callback of detectedObjects.forEach on one detection;
\* after the last one the loop is left
MatchNext ==
    \E inv \in inflight :
        /\ inv.stage = "aged"
        /\ CanRun(inv)
        /\ \E m \in {MatchOne([tracks |-> trackedFaces, dets |-> inv.dets],
                              inv.matchIdx, now)} :
              /\ trackedFaces' = m.tracks
              /\ boxObjects' = HeapAfter(boxObjects, m.tracks)
              /\ inflight' = (inflight \ {inv})
                                \cup {[inv EXCEPT
                                         !.stage = IF inv.matchIdx = Len(inv.dets)
                                                   THEN "matched" ELSE "aged",
                                         !.dets = m.dets,
                                         !.matchIdx = @ + 1]}
        /\ UNCHANGED <<callVars, emitted, feedVars, uiVars, nextPersonId, participants,
                       detectedObjects, applied, assignedIds, misses, retired, shareVars, now>>

NextMatch ==
    \/ StartOnce
    \/ StopScreenShare
    \/ TickMatch
    \/ MatchBegin
    \/ MatchNext
    \/ StepCreate
    \/ StepEmit

SpecMatch == Init /\ [][NextMatch]_vars

(***************************************************************************)
(* SpecMetrics: one call of the callback of detections.map (lines 309-334) *)
(* on a detection whose expression confidences are each 0, 0.5 or 1        *)
(***************************************************************************)
ConfidenceLevels == {0, 50, 100}

Expressions ==
    { Expr(n, ha, sa, an, fe, di, su) :
        n \in ConfidenceLevels, ha \in ConfidenceLevels, sa \in ConfidenceLevels,
        an \in ConfidenceLevels, fe \in ConfidenceLevels, di \in ConfidenceLevels,
        su \in ConfidenceLevels }

InitMetrics ==
    /\ Mounted
    /\ AgentMounted
    /\ classifierInput = CHOOSE in \in ClassifierInputs : TRUE
    /\ classifierLabel = ""
    /\ filters = << >>
    /\ models = << >>
    /\ updateCall = [model |-> 0]
    /\ faceExpressions \in Expressions
    /\ rawMetrics = << >>
    /\ fedCount = << >>
    /\ filterCall = [filter |-> 0]

ComputeMetrics ==
    /\ rawMetrics = << >>
    /\ rawMetrics' = << DetectedObject(Raw(100, 100, 50, 50, faceExpressions)).metrics >>
    /\ UNCHANGED <<faceExpressions, classifierVars, estimatorVars, filterVars, audioVars,
                   agentVars, componentVars>>

NextMetrics == ComputeMetrics

SpecMetrics == InitMetrics /\ [][NextMetrics]_vars

(***************************************************************************)
(* SpecFilter: KalmanFilter objects are constructed with the noise         *)
(* parameters of lines 65-67 and called, in any order, with measurements   *)
(* of 0, 40, 100 or NaN (what Math.max(0, Math.min(100, v)) at lines 97    *)
(* and 119 yields for a v of NaN)                                          *)
(***************************************************************************)
MaxFilters == 2      \* KalmanFilter objects constructed in a behaviour of SpecFilter
MaxFilterCalls == 4  \* calls of filter in a behaviour of SpecFilter

Measurements == {0, 40 * Milli, 100 * Milli, NaN}

ConstructFilter ==
    \E k \in 1..Len(NewFilters) :
        /\ Len(filters) < MaxFilters
        /\ filters' = Append(filters, NewFilters[k])
        /\ fedCount' = Append(fedCount, 0)
        /\ UNCHANGED <<filterCall, models, updateCall, classifierVars, metricVars, audioVars,
                       agentVars, componentVars>>

CallFilter ==
    \E i \in 1..Len(filters) : \E measurement \in Measurements :
        /\ SumOver(fedCount, 1, Len(fedCount)) < MaxFilterCalls
        /\ filters' = [filters EXCEPT ![i] = filter(@, measurement)]
        /\ fedCount' = [fedCount EXCEPT ![i] = @ + 1]
        /\ filterCall' = [filter |-> i, measurement |-> measurement,
                          before |-> filters[i], nth |-> fedCount[i] + 1]
        /\ UNCHANGED <<models, updateCall, classifierVars, metricVars, audioVars, agentVars,
                       componentVars>>

NextFilter ==
    \/ ConstructFilter
    \/ CallFilter

SpecFilter == Init /\ [][NextFilter]_vars

(***************************************************************************)
(* SpecSuggest: one session in which the AI-suggestions button (line 708,  *)
(* rendered whether or not the screen is shared) is clicked at any time,   *)
(* on frames with up to three upset faces (attention 0, stress 100: two    *)
(* suggestions each) at least 200 px apart.  analyzeFrame is a function of *)
(* the render in which startScreenShare was clicked; setInterval keeps     *)
(* that function (line 195), so every invocation reads the                 *)
(* aiSuggestionsEnabled of that render (closures).  A click of the toggle  *)
(* between the click of the start button and the grant is not modelled.    *)
(***************************************************************************)
MaxSuggestTicks == 3   \* timer callbacks in a behaviour of SpecSuggest

DetD == Raw(350, 300, 50, 50, ExprUpset)     \* centre (375,325): 200 px from DetC
DetE == Raw(100, 300, 50, 50, ExprUpset)     \* centre (125,325): 250 px from DetD

SuggestFrames == { <<DetA>>, <<DetC>>, <<DetC, DetD>>, <<DetC, DetD, DetE>> }

\* onClick={() => setAiSuggestionsEnabled(!aiSuggestionsEnabled)}, line 708
ToggleSuggestions ==
    /\ Idle
    /\ aiSuggestionsEnabled' = ~ aiSuggestionsEnabled
    /\ UNCHANGED <<callVars, objectVars, feedVars, closures, trackerVars, shareVars,
                   now, inflight>>

TickSuggest == TickUpTo(MaxSuggestTicks, 1)

ResolvedSuggest == ResolvedWith(SuggestFrames)

NextSuggest ==
    \/ StartOnce
    \/ StopScreenShare
    \/ ToggleSuggestions
    \/ TickSuggest
    \/ ResolvedSuggest

SpecSuggest == Init /\ [][NextSuggest]_vars

(***************************************************************************)
(* SpecSmooth: one session on frames in which a face moves 140 px in one   *)
(* period while a second face stands 55 px beyond it: the first detection  *)
(* of the frame is within the threshold of the track, the second is 195 px *)
(* from the track's box and 139 px from the box smoothed by line 380.      *)
(***************************************************************************)
MaxSmoothTicks == 3   \* timer callbacks in a behaviour of SpecSmooth

DetF == Raw(240, 100, 50, 50, ExprNeutral)   \* centre (265,125): 140 px from DetA
DetG == Raw(295, 100, 50, 50, ExprNeutral)   \* centre (320,125): 195 px from DetA

SmoothFrames == { <<DetA>>, <<DetF, DetG>>, <<DetG>> }

TickSmooth == TickUpTo(MaxSmoothTicks, 1)

ResolvedSmooth == ResolvedWith(SmoothFrames)

NextSmooth ==
    \/ StartOnce
    \/ StopScreenShare
    \/ TickSmooth
    \/ ResolvedSmooth

SpecSmooth == Init /\ [][NextSmooth]_vars

(***************************************************************************)
(* startAudioAnalysis, lines 472-525.  startScreenShare creates one        *)
(* recognition next to each interval (lines 192, 195) and stopScreenShare  *)
(* stops the one of speechRecognitionRef.current next to clearing the      *)
(* interval of analysisIntervalRef.current (lines 214-215): a recognition  *)
(* is delivering results exactly while its interval is live (timers).      *)
(* toxicityModelRef.current is set before the start button is enabled.     *)
(***************************************************************************)
Audio == 0   \* participant: "Audio" (a track's identity n stands for "Person n")

ToxicLabels == { << >>, << "insult" >>, << "insult", "toxicity" >> }

\* detectedLabels.join("; ")
RECURSIVE JoinLabels(_)
JoinLabels(labels) ==
    IF Len(labels) = 0 THEN ""
    ELSE IF Len(labels) = 1 THEN labels[1]
    ELSE labels[1] \o "; " \o JoinLabels(Tail(labels))

\* the object literal of lines 503-513
AudioLog(labels, time) ==
    [time         |-> time,
     participant  |-> Audio,
     attention    |-> 0,
     stress       |-> 0,
     curiosity    |-> 0,
     badSign      |-> TRUE,
     bodyLanguage |-> "N/A",
     toxicLabels  |-> JoinLabels(labels)]

\* recognition.onresult, lines 480-486: up to the awaited classify
OnResultUpTo(maxResults) ==
    /\ Idle
    /\ timers # {}
    /\ results < maxResults
    /\ results' = results + 1
    /\ classifying' = classifying + 1
    /\ UNCHANGED <<classifierVars, estimatorVars, metricVars, filterVars, agentVars,
                   toxicityEvents, componentVars>>

\* recognition.onresult, lines 486-515: after classify has resolved
ClassifyResolved ==
    /\ Idle
    /\ classifying > 0
    /\ classifying' = classifying - 1
    /\ \E detectedLabels \in ToxicLabels :
          IF Len(detectedLabels) > 0
          THEN /\ toxicityEvents' =
                     << [time |-> now, labels |-> detectedLabels] >> \o toxicityEvents
               /\ logs' = Append(logs, AudioLog(detectedLabels, now))
          ELSE UNCHANGED <<toxicityEvents, logs>>
    /\ UNCHANGED <<classifierVars, estimatorVars, metricVars, filterVars, agentVars,
                   results, objectVars, uiVars, trackerVars, shareVars, now, inflight,
                   suggestions, newSuggestions, currentLogs>>

(***************************************************************************)
(* SpecAudio: one session with three faces in every frame (three log       *)
(* entries per pass), long enough to fill the log, in which recognition    *)
(* delivers transcripts at any time                                        *)
(***************************************************************************)
MaxAudioTicks == 17   \* timer callbacks in a behaviour of SpecAudio
MaxResults == 1       \* transcripts delivered in a behaviour of SpecAudio

AudioFrames == { <<DetC, DetD, DetE>> }

TickAudio == TickUpTo(MaxAudioTicks, 1)

ResolvedAudio == ResolvedWith(AudioFrames)

OnResult == OnResultUpTo(MaxResults)

NextAudio ==
    \/ StartOnce
    \/ StopScreenShare
    \/ TickAudio
    \/ ResolvedAudio
    \/ OnResult
    \/ ClassifyResolved

SpecAudio == Init /\ [][NextAudio]_vars

(***************************************************************************)
(* MeetingAgent, lines 884-1030.  startCapture is an async function: each  *)
(* click of "Select Meeting Tab" suspends at the awaited getDisplayMedia   *)
(* (requesting) and nothing in the component keeps a second click from     *)
(* being made before the first is answered ("Connect Agent" is rendered    *)
(* until isLive is set, which is at loadedmetadata).  The video element    *)
(* has no autoplay: it is paused until play() is called, and assigning     *)
(* srcObject runs the media element load algorithm, which pauses it.       *)
(* requestAnimationFrame callbacks run at the browser's next rendering     *)
(* opportunity, in no fixed order with events.  A data point stands for    *)
(* its serial number; highlights, sharingSource and error are presentation *)
(* state that no handler below reads.                                      *)
(***************************************************************************)
DATA_KEPT == 40

MaxCaptures == 2   \* calls of startCapture in a behaviour of SpecAgent
MaxPoints == 4     \* calls of setData in a behaviour of SpecAgent

\* handleConnectClick, lines 957-960: "Connect Agent", rendered while isLive
\* is false and reachable while the confirmation modal does not cover it
HandleConnectClick ==
    /\ ~ isLive
    /\ ~ isConfirming
    /\ isConfirming' = TRUE
    /\ UNCHANGED <<isLive, processingRef, paused, srcObject, metadataPending, requesting,
                   nextStream, frameRequests, data, appended>>
    /\ UNCHANGED <<classifierVars, estimatorVars, metricVars, filterVars, audioVars,
                   componentVars>>

\* onClick={() => setIsConfirming(false)}, lines 1040 and 1068
CloseConfirm ==
    /\ isConfirming
    /\ isConfirming' = FALSE
    /\ UNCHANGED <<isLive, processingRef, paused, srcObject, metadataPending, requesting,
                   nextStream, frameRequests, data, appended>>
    /\ UNCHANGED <<classifierVars, estimatorVars, metricVars, filterVars, audioVars,
                   componentVars>>

\* startCapture, lines 962-966: up to the awaited getDisplayMedia
StartCapture ==
    /\ isConfirming
    /\ requesting + nextStream <= MaxCaptures
    /\ isConfirming' = FALSE
    /\ requesting' = requesting + 1
    /\ UNCHANGED <<isLive, processingRef, paused, srcObject, metadataPending,
                   nextStream, frameRequests, data, appended>>
    /\ UNCHANGED <<classifierVars, estimatorVars, metricVars, filterVars, audioVars,
                   componentVars>>

\* startCapture, lines 975-995: getDisplayMedia resolved with a stream
CaptureGranted ==
    /\ requesting > 0
    /\ requesting' = requesting - 1
    /\ srcObject' = nextStream
    /\ nextStream' = nextStream + 1
    /\ metadataPending' = TRUE
    /\ paused' = TRUE
    /\ UNCHANGED <<isLive, isConfirming, processingRef, frameRequests, data, appended>>
    /\ UNCHANGED <<classifierVars, estimatorVars, metricVars, filterVars, audioVars,
                   componentVars>>

\* startCapture, lines 997-1003: getDisplayMedia rejected
CaptureRejected ==
    /\ requesting > 0
    /\ requesting' = requesting - 1
    /\ UNCHANGED <<isLive, isConfirming, processingRef, paused, srcObject, metadataPending,
                   nextStream, frameRequests, data, appended>>
    /\ UNCHANGED <<classifierVars, estimatorVars, metricVars, filterVars, audioVars,
                   componentVars>>

\* setData(prev => [...prev.slice(-40), {...}]), lines 940-952
SetData(prev, point) == Append(LastN(prev, DATA_KEPT), point)

\* analyzeFrame, lines 898-955, as a function of the state it reads: the
\* guards of lines 899 and 905, then setData and requestAnimationFrame
AgentAnalyzeFrame(processing, videoPaused, series, count, requests) ==
    IF processing /\ ~ videoPaused
    THEN [data |-> SetData(series, count + 1), appended |-> count + 1,
          frameRequests |-> requests + 1]
    ELSE [data |-> series, appended |-> count, frameRequests |-> requests]

\* videoRef.current.onloadedmetadata, lines 982-987
LoadedMetadata ==
    /\ metadataPending
    /\ appended < MaxPoints
    /\ metadataPending' = FALSE
    /\ paused' = FALSE
    /\ processingRef' = TRUE
    /\ isLive' = TRUE
    /\ \E r \in {AgentAnalyzeFrame(TRUE, FALSE, data, appended, frameRequests)} :
          /\ data' = r.data
          /\ appended' = r.appended
          /\ frameRequests' = r.frameRequests
    /\ UNCHANGED <<isConfirming, srcObject, requesting, nextStream>>
    /\ UNCHANGED <<classifierVars, estimatorVars, metricVars, filterVars, audioVars,
                   componentVars>>

\* stopCapture, lines 1006-1016: "Disconnect" (rendered while isLive) or the
\* onended of the stream's video track
StopCapture ==
    /\ isLive \/ srcObject # 0
    /\ processingRef' = FALSE
    /\ isLive' = FALSE
    /\ srcObject' = 0
    /\ metadataPending' = FALSE
    /\ paused' = (paused \/ srcObject # 0)
    /\ UNCHANGED <<isConfirming, requesting, nextStream, frameRequests, data, appended>>
    /\ UNCHANGED <<classifierVars, estimatorVars, metricVars, filterVars, audioVars,
                   componentVars>>

\* a callback of requestAnimationFrame(analyzeFrame), line 954, is run
AnimationFrame ==
    /\ frameRequests > 0
    /\ (processingRef /\ ~ paused) => appended < MaxPoints
    /\ \E r \in {AgentAnalyzeFrame(processingRef, paused, data, appended,
                                   frameRequests - 1)} :
          /\ data' = r.data
          /\ appended' = r.appended
          /\ frameRequests' = r.frameRequests
    /\ UNCHANGED <<isLive, isConfirming, processingRef, paused, srcObject, metadataPending,
                   requesting, nextStream>>
    /\ UNCHANGED <<classifierVars, estimatorVars, metricVars, filterVars, audioVars,
                   componentVars>>

NextAgent ==
    \/ HandleConnectClick
    \/ CloseConfirm
    \/ StartCapture
    \/ CaptureGranted
    \/ CaptureRejected
    \/ LoadedMetadata
    \/ StopCapture
    \/ AnimationFrame

SpecAgent == Init /\ [][NextAgent]_vars

(***************************************************************************)
(* Properties                                                              *)
(***************************************************************************)
DetIdx == 1..Len(detectedObjects)

\* C1: in every pass matching is one-to-one: no two detections of a frame are
\* matched to the same track (a later detection whose nearest track is already
\* claimed goes to another track or becomes a new one).
C1_OneToOne ==
    \A i, j \in DetIdx :
        (i # j /\ detectedObjects[i].matched /\ detectedObjects[j].matched)
            => detectedObjects[i].trackId # detectedObjects[j].trackId

\* no two tracks of the track set share an identity
C2_IdsDistinct ==
    \A i, j \in 1..Len(trackedFaces) :
        i # j => trackedFaces[i].id # trackedFaces[j].id

\* the tracks created by one pass got increasing identities, in list order
C2_CreatedIncreasing ==
    \A i, j \in DetIdx :
        (i < j /\ ~ detectedObjects[i].matched /\ ~ detectedObjects[j].matched)
            => detectedObjects[i].trackId < detectedObjects[j].trackId

\* an identity that enters the track set in a step is above every identity
\* assigned so far (assignedIds keeps those of removed tracks too)
C2_NewIdsFresh ==
    \A id \in Ids(trackedFaces') \ Ids(trackedFaces) :
        \A a \in assignedIds : id > a

\* C2: no two live tracks share an identity; a track created in a step gets an
\* identity above every identity assigned before it, so the identity of a
\* removed track is never assigned again, also across stopScreenShare /
\* startScreenShare.
C2_IdentityUnique ==
    /\ [](C2_IdsDistinct /\ C2_CreatedIncreasing)
    /\ [][C2_NewIdsFresh]_vars

\* a track created after a stop and a second start, the first identity gone
C2_Witness ==
    /\ nextHandle > 2
    /\ Len(trackedFaces) > 0
    /\ 1 \in assignedIds
    /\ 1 \notin Ids(trackedFaces)
    /\ \E i \in 1..Len(trackedFaces) : trackedFaces[i].id > 1

\* C3: a track matched by no detection in MAX_MISSING_FRAMES + 1 consecutive
\* passes is in no snapshot list (and not in the track set) from the last of
\* those passes on.
C3_RetiredAbsent ==
    /\ \A i \in 1..Len(participants) : participants[i].id \notin retired
    /\ \A i \in 1..Len(trackedFaces) : trackedFaces[i].id \notin retired

\* the first track went unmatched for MAX_MISSING_FRAMES + 1 passes, passes
\* went on and a later track is emitted
C3_Witness ==
    /\ 1 \in retired
    /\ Len(participants) > 0
    /\ Len(applied) > MAX_MISSING_FRAMES + 2

\* C4: every snapshot of the participants list is the snapshot of a track of
\* the pruned track set, whose missing-counter is at most MAX_MISSING_FRAMES.
C4_NoStaleSnapshot ==
    /\ Len(participants) = Len(trackedFaces)
    /\ \A i \in 1..Len(participants) :
          /\ participants[i].id = trackedFaces[i].id
          /\ trackedFaces[i].missingFrames <= MAX_MISSING_FRAMES

\* a track at the edge of the tolerance is emitted beside a fresh one, after
\* another track was pruned
C4_Witness ==
    /\ retired # {}
    /\ \E i, j \in 1..Len(participants) :
          /\ trackedFaces[i].missingFrames = MAX_MISSING_FRAMES
          /\ trackedFaces[j].missingFrames = 0

\* C5: attention, stress and curiosity lie in [0,100], as raw values of a
\* detection and as smoothed values of a track and of its snapshot.
InRange(m) ==
    /\ 0 <= m.attention /\ m.attention <= 100 * Scale
    /\ 0 <= m.stress    /\ m.stress    <= 100 * Scale
    /\ 0 <= m.curiosity /\ m.curiosity <= 100 * Scale

C5_MetricsBounded ==
    /\ \A i \in DetIdx : InRange(detectedObjects[i].metrics)
    /\ \A i \in 1..Len(trackedFaces) : InRange(trackedFaces[i].metrics)
    /\ \A i \in 1..Len(participants) : InRange(participants[i])

\* a detection whose raw stress and curiosity were clamped to 100 was smoothed
\* into a track
C5_Witness ==
    \E i \in DetIdx : \E t \in 1..Len(trackedFaces) :
        /\ detectedObjects[i].matched
        /\ detectedObjects[i].trackId = trackedFaces[t].id
        /\ detectedObjects[i].metrics.stress = 100 * Scale
        /\ detectedObjects[i].metrics.curiosity = 100 * Scale
        /\ trackedFaces[t].metrics.stress > 0
        /\ trackedFaces[t].metrics.stress < 100 * Scale

\* every history holds 1..30 entries in non-decreasing timestamp order
C6_HistoryShape ==
    \A i \in 1..Len(trackedFaces) :
        LET h == trackedFaces[i].history
        IN  /\ Len(h) >= 1
            /\ Len(h) <= HISTORY_CAP
            /\ \A k \in 1..(Len(h) - 1) : h[k].time <= h[k+1].time

\* a history that changes in a step gets one entry appended, and loses its
\* oldest entry when it was full
C6_EvictOldest ==
    \A i \in 1..Len(trackedFaces) : \A j \in 1..Len(trackedFaces') :
        (trackedFaces[i].id = trackedFaces'[j].id
         /\ trackedFaces'[j].history # trackedFaces[i].history)
        => LET h  == trackedFaces[i].history
               h2 == trackedFaces'[j].history
           IN  h2 = IF Len(h) < HISTORY_CAP
                    THEN Append(h, h2[Len(h2)])
                    ELSE Append(Tail(h), h2[Len(h2)])

\* C6: after any sequence of passes a history holds at least 1 and at most 30
\* entries in non-decreasing timestamp order, and an append that would exceed
\* 30 evicts the oldest entry.
C6_HistoryBounded ==
    /\ []C6_HistoryShape
    /\ [][C6_EvictOldest]_vars

\* a full history whose first entry is no longer the track's first
C6_Witness ==
    \E i \in 1..Len(trackedFaces) :
        /\ Len(trackedFaces[i].history) = HISTORY_CAP
        /\ trackedFaces[i].history[1].time > 1

\* C7: a detection with a non-positive box width or height is dropped before
\* matching: it is matched to no track and creates no track.
C7_InvalidDropped ==
    \A i \in DetIdx :
        (detectedObjects[i].box.w <= 0 \/ detectedObjects[i].box.h <= 0)
            => (~ detectedObjects[i].matched /\ detectedObjects[i].trackId = 0)

\* C8: passes are applied in the order their invocations were started by the
\* timer (an invocation whose frame is dropped applies no pass).
C8_ArrivalOrder ==
    \A i, j \in 1..Len(applied) : i < j => applied[i] < applied[j]

\* at most one invocation is inside its pass
C9_OnePassAtATime ==
    Cardinality({inv \in inflight : inv.stage \in PassStages}) <= 1

\* while an invocation is inside its pass, every step is a step of that
\* invocation (it moves on or ends)
C9_PassUninterrupted ==
    \A inv \in inflight : inv.stage \in PassStages => inv \notin inflight'

\* C9: no two passes run concurrently over the track set: from the first
\* mutation of an invocation (the ageing) to its emission, no other
\* analyzeFrame invocation, no stopScreenShare and no timer callback takes a
\* step.
C9_NoOverlap ==
    /\ []C9_OnePassAtATime
    /\ [][C9_PassUninterrupted]_vars

\* an invocation is inside its pass while another one is suspended at its await
C9_Witness ==
    \E a, b \in inflight :
        /\ a.stage = "matched"
        /\ b.stage \in AwaitPoints
        /\ Len(a.dets) = 2
        /\ Len(trackedFaces) > 0

\* the rules in the order of the claim, on the arguments of the call
C11_Rules ==
    LET m      == classifierInput.metrics
        recent == LastN(classifierInput.history, 5)
    IN  << [label |-> "Fidgeting", holds |-> Fidgeting(m, recent)],
           [label |-> "Leaning Forward",
            holds |-> LeaningForward(m, classifierInput.currentBox, classifierInput.baseline)],
           [label |-> "Slouching",
            holds |-> Slouching(m, classifierInput.currentBox, classifierInput.baseline)],
           [label |-> "Nodding", holds |-> Nodding(m, recent)],
           [label |-> "Head Shaking", holds |-> HeadShaking(m, recent)],
           [label |-> "Arms Crossed", holds |-> ArmsCrossed(m, recent)],
           [label |-> "Engaged", holds |-> Engaged(m)] >>

C11_Firing == {k \in 1..Len(C11_Rules) : C11_Rules[k].holds}

\* C11: for a history of at least 3 entries determineBodyLanguage returns the
\* label of the first rule, in the order Fidgeting, Leaning Forward, Slouching,
\* Nodding, Head Shaking, Arms Crossed, Engaged, whose condition holds, and
\* "Listening" when none holds; a later rule never overrides an earlier one.
C11_FirstRuleWins ==
    (classifierLabel # "" /\ Len(classifierInput.history) >= 3)
        => IF C11_Firing = {} THEN classifierLabel = "Listening"
           ELSE \E k \in C11_Firing :
                   /\ \A j \in C11_Firing : k <= j
                   /\ classifierLabel = C11_Rules[k].label

\* a call in which Arms Crossed and Engaged both hold and no earlier rule does
C11_Witness ==
    /\ classifierLabel = "Arms Crossed"
    /\ Len(classifierInput.history) >= 3
    /\ C11_Firing = {6, 7}

\* C12: after any sequence of CognitiveModel.update calls with in-range inputs
\* (any head angles, ear >= 0, blinkRate >= 0, confidences in [0,1]) every
\* returned attention, stress and curiosity lies in [0, 100].
C12_OutputsBounded ==
    updateCall.model # 0
        => /\ updateCall.point.attention \in 0..(100 * Milli)
           /\ updateCall.point.stress \in 0..(100 * Milli)
           /\ updateCall.point.curiosity \in 0..(100 * Milli)

\* an update whose stress base is above 100 and whose raw attention is below 0
\* before the limits: the returned values sit on both ends of the range
C12_Witness ==
    /\ updateCall.model # 0
    /\ StressBase(updateCall.input) > 100 * Milli
    /\ updateCall.point.stress = 100 * Milli
    /\ updateCall.point.attention = 0

\* the two calls of KalmanFilter.filter the last update made: the filter object
\* before and after, and the measurement
C13_FilterCalls ==
    LET m == models[updateCall.model]
    IN  { [before      |-> updateCall.before[m.attentionFilter],
           after       |-> filters[m.attentionFilter],
           measurement |-> updateCall.fed.attention],
          [before      |-> updateCall.before[m.stressFilter],
           after       |-> filters[m.stressFilter],
           measurement |-> updateCall.fed.stress] }

\* C13: each call of KalmanFilter.filter with a finite measurement returns a
\* number (never NaN), and every call after the first of a filter returns a
\* value between the filter's previous estimate and the new measurement,
\* inclusive.
C13_EstimateBetween ==
    updateCall.model # 0
        => \A c \in C13_FilterCalls :
              /\ ~ c.after.isNaN
              /\ ~ c.before.isNaN
                    => /\ Min(c.before.x, c.measurement) <= c.after.x
                       /\ c.after.x <= Max(c.before.x, c.measurement)

\* a call after the first whose result is strictly between the previous estimate
\* and a measurement at least 50 above it
C13_Witness ==
    /\ updateCall.model # 0
    /\ \E c \in C13_FilterCalls :
          /\ ~ c.before.isNaN
          /\ c.measurement >= c.before.x + 50 * Milli
          /\ c.before.x < c.after.x
          /\ c.after.x < c.measurement

\* C14: each of the three raw scores of an update is passed through its own
\* filter of the instance before it is reported: the attention, stress and
\* curiosity of the returned point are the estimates of three filters that were
\* fed the raw score, rounded to two decimals.
C14_EachScoreFiltered ==
    updateCall.model # 0
        => LET m == models[updateCall.model]
               b == updateCall.before
           IN  /\ filters[m.attentionFilter] = filter(b[m.attentionFilter], updateCall.fed.attention)
               /\ updateCall.point.attention = ToFixed2(filters[m.attentionFilter].x)
               /\ filters[m.stressFilter] = filter(b[m.stressFilter], updateCall.fed.stress)
               /\ updateCall.point.stress = ToFixed2(filters[m.stressFilter].x)
               /\ filters[m.flowFilter] = filter(b[m.flowFilter], Clamp100(updateCall.fed.curiosity))
               /\ updateCall.point.curiosity = ToFixed2(filters[m.flowFilter].x)

C15_Fields == {"attentionFilter", "stressFilter", "flowFilter"}

\* no filter object is held by two fields, of one instance or of two
C15_RefsDistinct ==
    \A i, j \in 1..Len(models) : \A f, g \in C15_Fields :
        (i # j \/ f # g) => models[i][f] # models[j][g]

\* a call of update on instance i leaves every other instance and its filter
\* objects as they were, and each filter of i it feeds ends in the state that
\* filter's own measurement gives from that filter's own previous state
C15_UpdateLocal ==
    (now' # now /\ updateCall'.model # 0)
        => LET i == updateCall'.model
               m == models[i]
           IN  /\ \A j \in 1..Len(models) :
                     j # i => /\ models'[j] = models[j]
                              /\ \A f \in C15_Fields : filters'[models[j][f]] = filters[models[j][f]]
               /\ filters'[m.attentionFilter] = filter(filters[m.attentionFilter], updateCall'.fed.attention)
               /\ filters'[m.stressFilter] = filter(filters[m.stressFilter], updateCall'.fed.stress)
               /\ filters'[m.flowFilter] = filters[m.flowFilter]

\* C15: filter state is never shared across people or metrics: an update of one
\* CognitiveModel instance changes nothing another instance's later results
\* depend on, and within an instance what is fed to the attention filter does
\* not change the estimate or covariance of the stress filter.
C15_NoSharing ==
    /\ []C15_RefsDistinct
    /\ [][C15_UpdateLocal]_vars

\* two instances, both updated, whose attention estimates differ, the last call
\* having fed different measurements to its attention and stress filters
C15_Witness ==
    /\ Len(models) = 2
    /\ updateCall.model # 0
    /\ updateCall.fed.attention # updateCall.fed.stress
    /\ ~ filters[models[1].attentionFilter].isNaN
    /\ ~ filters[models[2].attentionFilter].isNaN
    /\ filters[models[1].attentionFilter].x # filters[models[2].attentionFilter].x

\* a step that applies a pass
PassApplied == applied' # applied

\* a track no detection of the pass was matched to comes out with its
\* missing-counter one higher and nothing else changed, or, the counter
\* thereby passing MAX_MISSING_FRAMES, is removed
C16_UnmatchedAged ==
    PassApplied
        => \A i \in 1..Len(trackedFaces) :
              LET t == trackedFaces[i]
              IN  t.id \notin MatchedIds(detectedObjects')
                    => IF t.missingFrames + 1 > MAX_MISSING_FRAMES
                       THEN t.id \notin Ids(trackedFaces')
                       ELSE \E j \in 1..Len(trackedFaces') :
                               trackedFaces'[j] = [t EXCEPT !.missingFrames = @ + 1]

\* a pass over a frame with no detection creates no track and assigns no identity
C16_EmptyFrameCreatesNothing ==
    (PassApplied /\ detectedObjects' = << >>)
        => /\ nextPersonId' = nextPersonId
           /\ assignedIds' = assignedIds
           /\ Ids(trackedFaces') \subseteq Ids(trackedFaces)
           /\ Len(trackedFaces') <= Len(trackedFaces)

\* while no frame has carried a detection the track set is empty
C16_EmptySessionNoTracks == assignedIds = {} => trackedFaces = << >>

\* C16: in every pass each existing track matched by no detection has its
\* missing-counter increased by exactly 1 and its identity, box, metrics,
\* baseline and history unchanged (and is removed if the counter passes 5); a
\* frame with zero detections creates no track; a session whose frames all carry
\* zero detections has an empty track set after every pass.
C16_AbsenceOnlyAges ==
    /\ [][C16_UnmatchedAged /\ C16_EmptyFrameCreatesNothing]_vars
    /\ []C16_EmptySessionNoTracks

\* after a pass over an empty frame, a track seen in two frames and absent from
\* the two frames since
C16_Witness ==
    /\ Len(applied) >= 4
    /\ detectedObjects = << >>
    /\ \E i \in 1..Len(trackedFaces) :
          /\ trackedFaces[i].missingFrames = 2
          /\ Len(trackedFaces[i].history) = 2

\* a step that applies a pass to an empty track set and a frame whose one
\* detection is the box {100, 100, 50, 50} with attention 80 and stress 0
C17_FirstFace ==
    /\ PassApplied
    /\ trackedFaces = << >>
    /\ Len(detectedObjects') = 1
    /\ detectedObjects'[1].box = DetectedObject(DetA).box
    /\ detectedObjects'[1].metrics = DetectedObject(DetA).metrics

\* the pass created exactly one track, of identity id, emitted as "Listening"
C17_CreatedOne(id) ==
    /\ Len(trackedFaces') = 1
    /\ trackedFaces'[1].id = id
    /\ Len(trackedFaces'[1].history) = 1
    /\ Len(participants') = 1
    /\ participants'[1].id = id
    /\ participants'[1].bodyLanguage = "Listening"

\* C17 as claimed: whenever the track set is empty and a frame carries exactly one
\* detection, the pass creates exactly one track, of identity 1, whose emitted
\* snapshot has bodyLanguage "Listening".
C17_IdentityOne == [][C17_FirstFace => C17_CreatedOne(1)]_vars

\* C17: whenever the track set is empty and a frame carries exactly one
\* detection, the pass creates exactly one track, whose identity is the value of
\* the identity counter (1 if no track was created before, also not before a
\* stopScreenShare), and whose emitted snapshot has bodyLanguage "Listening".
C17_IdentityFromCounter ==
    [][C17_FirstFace
         => /\ C17_CreatedOne(nextPersonId)
            /\ assignedIds = {} => C17_CreatedOne(1)]_vars

\* the one track of the set was created by the last pass with identity 2, the
\* track of identity 1 gone
C17_Witness ==
    /\ applied # << >>
    /\ assignedIds = {1, 2}
    /\ Len(trackedFaces) = 1
    /\ trackedFaces[1].id = 2
    /\ trackedFaces[1].lastSeen = applied[Len(applied)]
    /\ Len(trackedFaces[1].history) = 1
    /\ Len(detectedObjects) = 1
    /\ detectedObjects[1].box = DetectedObject(DetA).box
    /\ ~ detectedObjects[1].matched
    /\ Len(participants) = 1
    /\ participants[1].bodyLanguage = "Listening"

\* track t had baseline.w = 50 when it was created and was then matched in 5
\* consecutive frames by detections whose width never shrank and is 65 in the
\* fifth, its attention being 80 and its stress 0 throughout
C18_GrownTo65(t) ==
    /\ Len(t.history) = 6
    /\ t.missingFrames = 0
    /\ t.history[1].w = 50 * Scale
    /\ \A k \in 1..5 : /\ t.history[k + 1].time = t.history[k].time + 1
                       /\ t.history[k + 1].w >= t.history[k].w
    /\ t.history[6].w = 65 * Scale
    /\ t.metrics.attention = 80 * Scale
    /\ t.metrics.stress = 0

C18_Label(i) == participants[i].bodyLanguage

C19_About(records, field) == {records[k][field] : k \in 1..Len(records)}

\* the tracks of the set whose missing-counter is 0
C19_Present(tracks) == {i \in 1..Len(tracks) : tracks[i].missingFrames = 0}

\* a pass appends to the logs exactly one record per track whose missing-counter
\* is 0 after the pass, and none for any other track
C19_LoggedIffPresent ==
    PassApplied
        => /\ \A i \in 1..Len(trackedFaces') :
                 (trackedFaces'[i].id \in C19_About(currentLogs', "participant"))
                     <=> (i \in C19_Present(trackedFaces'))
           /\ Len(currentLogs') = Cardinality(C19_Present(trackedFaces'))
           /\ Len(logs') = Min(Len(logs) + Len(currentLogs'), LOGS_CAP)
           /\ \A k \in 1..Len(currentLogs') :
                 logs'[Len(logs') - Len(currentLogs') + k] = currentLogs'[k]

\* a track with missing-counter 1..5 is in the emitted snapshot list and no
\* suggestion of the pass is about it
C19_AbsentSilent ==
    PassApplied
        => \A i \in 1..Len(trackedFaces') :
              trackedFaces'[i].missingFrames \in 1..MAX_MISSING_FRAMES
                 => /\ trackedFaces'[i].id \in C19_About(participants', "id")
                    /\ trackedFaces'[i].id \notin C19_About(newSuggestions', "id")
                    /\ trackedFaces'[i].id \notin C19_About(currentLogs', "participant")

\* C19: a log record is appended for a track if and only if its missing-counter
\* is 0 after the pass; a track that merely persisted through absence (counter
\* 1..5) is still emitted in the snapshot list but produces no log record and no
\* suggestion.
C19_LogsOnlyWhenSeen == [][C19_LoggedIffPresent /\ C19_AbsentSilent]_vars

\* the last pass matched one track and logged it; another track, absent from the
\* frame, low in attention and high in stress, was emitted with no record and no
\* suggestion, suggestions being enabled and made about it in an earlier pass
C19_Witness ==
    /\ applied # << >>
    /\ Len(currentLogs) = 1
    /\ \E i, j \in 1..Len(trackedFaces) :
          /\ trackedFaces[i].missingFrames >= 1
          /\ trackedFaces[i].metrics.attention < 35 * Scale
          /\ trackedFaces[i].metrics.stress > 75 * Scale
          /\ Len(participants) = Len(trackedFaces)
          /\ participants[i].id = trackedFaces[i].id
          /\ trackedFaces[i].id \in C19_About(suggestions, "id")
          /\ trackedFaces[i].id \notin C19_About(newSuggestions, "id")
          /\ trackedFaces[j].missingFrames = 0
          /\ currentLogs[1].participant = trackedFaces[j].id
          /\ logs[Len(logs)] = currentLogs[1]

\* what a holder of snapshot e reads from it now: the numbers and strings the
\* snapshot holds, and the box object it refers to
C20_Read(e) == [e EXCEPT !.box = boxObjects[e.boxRef]]

\* C20: an emitted snapshot is a point-in-time copy: no later frame pass and no
\* stopScreenShare changes the identity, metrics, badSign, bodyLanguage or box of
\* an already emitted snapshot, including the snapshot of a track created in
\* that pass (whose box is the detection's own box object).
C20_SnapshotsFrozen == \A e \in emitted : C20_Read(e) = e

\* a snapshot emitted by the pass that created its track, from the detection's
\* box object; the track's box has moved since, and the session was stopped
C20_Witness ==
    /\ participants = << >>
    /\ trackedFaces = << >>
    /\ \E e, f \in emitted :
          /\ ~ e.boxRef.smoothed
          /\ f.id = e.id
          /\ f.boxRef.smoothed
          /\ f.box # e.box

\* the invocation that is inside the loop of lines 342-395, at detection matchIdx
C21_AtDetection(inv) == inv.stage = "aged"

\* the same invocation one detection later
C21_After(inv) == {a \in inflight' : a.seq = inv.seq /\ a.stage \in {"aged", "matched"}
                                     /\ a.matchIdx = inv.matchIdx + 1}

\* squared distance between a detection's centre and the centre of a track's box
C21_DistSq(detection, track) ==
    (detection.center.x - (track.box.x + Round(track.box.w, 2)))
        * (detection.center.x - (track.box.x + Round(track.box.w, 2)))
    + (detection.center.y - (track.box.y + Round(track.box.h, 2)))
        * (detection.center.y - (track.box.y + Round(track.box.h, 2)))

\* the tracks less than 150 px from the detection
C21_Near(detection) ==
    {t \in 1..Len(trackedFaces) :
        C21_DistSq(detection, trackedFaces[t])
            < (MATCH_DISTANCE_THRESHOLD * Scale) * (MATCH_DISTANCE_THRESHOLD * Scale)}

\* the nearest of them, the earliest of the nearest
C21_Nearest(detection, t) ==
    /\ t \in C21_Near(detection)
    /\ \A u \in C21_Near(detection) :
          \/ C21_DistSq(detection, trackedFaces[t]) < C21_DistSq(detection, trackedFaces[u])
          \/ /\ C21_DistSq(detection, trackedFaces[t]) = C21_DistSq(detection, trackedFaces[u])
             /\ t <= u

C21_Matched ==
    \A inv \in {i \in inflight : C21_AtDetection(i)} : \A a \in C21_After(inv) :
            LET before == inv.dets[inv.matchIdx]
                after  == a.dets[inv.matchIdx]
            IN  /\ after.matched <=> C21_Near(before) # {}
                /\ \A t \in 1..Len(trackedFaces) :
                      C21_Nearest(before, t) =>
                          /\ after.trackId = trackedFaces[t].id
                          /\ trackedFaces'[t].missingFrames = 0

\* the create loop of the same invocation
C21_Created ==
    \A inv \in inflight : \A a \in inflight' :
        (inv.stage = "matched" /\ a.seq = inv.seq /\ a.stage = "created") =>
            \A i \in 1..Len(inv.dets) :
                ~ inv.dets[i].matched =>
                    /\ a.dets[i].trackId \notin {trackedFaces[t].id : t \in 1..Len(trackedFaces)}
                    /\ \E t \in 1..Len(trackedFaces') :
                          /\ t > Len(trackedFaces)
                          /\ trackedFaces'[t].id = a.dets[i].trackId
                          /\ trackedFaces'[t].box = inv.dets[i].box

\* C21: a detection is matched exactly when some track's box centre is less
\* than MATCH_DISTANCE_THRESHOLD (150) from its centre, and then to the track
\* at minimum distance, the earliest in track-set order on a tie; a detection
\* 150 px or more from every track is not matched and gets a new track.
C21_MatchingRule == [][C21_Matched /\ C21_Created]_vars

\* a detection half way between two tracks went to the first of them, and a
\* later detection exactly 150 px from the second got a track of its own
C21_Witness ==
    \E t, u, v \in 1..Len(trackedFaces) :
        /\ t < u /\ u < v
        /\ Len(trackedFaces[t].history) = 2
        /\ trackedFaces[t].history[1].x = 125 * Scale
        /\ trackedFaces[t].history[2].x = 175 * Scale
        /\ Len(trackedFaces[u].history) = 1
        /\ trackedFaces[u].history[1].x = 225 * Scale
        /\ trackedFaces[v].missingFrames = 0
        /\ Len(trackedFaces[v].history) = 1
        /\ trackedFaces[v].history[1].x = 375 * Scale

\* the track a pass created for detection d, as the pass left it
C22_Fresh(t, d) ==
    /\ t.missingFrames = 0
    /\ Len(t.history) = 1
    /\ t.history[1].x = d.center.x /\ t.history[1].y = d.center.y
    /\ t.history[1].w = d.box.w /\ t.history[1].h = d.box.h
    /\ t.box = d.box
    /\ t.baseline = [w |-> d.box.w, y |-> d.box.y]
    /\ t.metrics = d.metrics

\* C22: every track created for an unmatched detection starts with
\* missing-counter 0, a history of exactly one entry (the detection's centre and
\* size), the detection's box, baseline {w, y} of that box, and the detection's
\* own raw metrics, whatever other tracks exist or were retired before.
C22_CreatedFresh ==
    [][PassApplied =>
          \A i \in 1..Len(detectedObjects') :
              ~ detectedObjects'[i].matched =>
                  \E t \in 1..Len(trackedFaces') :
                      /\ trackedFaces'[t].id = detectedObjects'[i].trackId
                      /\ trackedFaces'[t].id \notin assignedIds
                      /\ C22_Fresh(trackedFaces'[t], detectedObjects'[i])]_vars

\* a track was just created where a retired track had been, next to a live
\* track whose smoothed metrics differ from the new track's
C22_Witness ==
    \E t, u \in 1..Len(trackedFaces) : \E i \in DetIdx :
        /\ retired # {}
        /\ ~ detectedObjects[i].matched
        /\ detectedObjects[i].trackId = trackedFaces[u].id
        /\ trackedFaces[u].box.x = 100 * Scale
        /\ C22_Fresh(trackedFaces[u], detectedObjects[i])
        /\ trackedFaces[t].missingFrames > 0
        /\ trackedFaces[t].metrics # trackedFaces[u].metrics

\* wOld x old + wNew x new over wOld + wNew, to the nearest hundredth
C23_Mix(old, new, wOld, wNew) == Round(wOld * old + wNew * new, wOld + wNew)

\* track new is track old updated once with detection d
C23_UpdatedOnce(old, new, d) ==
    /\ new.missingFrames = 0
    /\ new.history[Len(new.history)].x = d.center.x
    /\ new.history[Len(new.history)].y = d.center.y
    /\ new.history[Len(new.history)].w = d.box.w
    /\ new.history[Len(new.history)].h = d.box.h
    /\ new.baseline.w = C23_Mix(old.baseline.w, d.box.w, 99, 1)
    /\ new.baseline.y = C23_Mix(old.baseline.y, d.box.y, 99, 1)
    /\ new.box.x = C23_Mix(old.box.x, d.box.x, 6, 4)
    /\ new.box.y = C23_Mix(old.box.y, d.box.y, 6, 4)
    /\ new.box.w = C23_Mix(old.box.w, d.box.w, 6, 4)
    /\ new.box.h = C23_Mix(old.box.h, d.box.h, 6, 4)
    /\ new.metrics.attention = C23_Mix(old.metrics.attention, d.metrics.attention, 6, 4)
    /\ new.metrics.stress = C23_Mix(old.metrics.stress, d.metrics.stress, 6, 4)
    /\ new.metrics.curiosity = C23_Mix(old.metrics.curiosity, d.metrics.curiosity, 6, 4)

\* C23: when a track is matched by a detection in a frame, after the pass its
\* missing-counter is 0, the detection's centre and size are its last history
\* entry, its baseline is 0.99 old + 0.01 detection and its box and metrics are
\* 0.6 old + 0.4 detection, each applied once for that frame.
C23_MatchedUpdatedOnce ==
    [][PassApplied =>
          \A i \in 1..Len(detectedObjects') :
              detectedObjects'[i].matched =>
                  \A t \in 1..Len(trackedFaces) : \A u \in 1..Len(trackedFaces') :
                      (/\ trackedFaces[t].id = detectedObjects'[i].trackId
                       /\ trackedFaces'[u].id = detectedObjects'[i].trackId)
                          => C23_UpdatedOnce(trackedFaces[t], trackedFaces'[u],
                                             detectedObjects'[i])]_vars

\* detection d is at the position of track t
C24_AtPositionOf(d, t) ==
    /\ d.center.x = t.box.x + Round(t.box.w, 2)
    /\ d.center.y = t.box.y + Round(t.box.h, 2)

\* track new is track old found again by detection d: the same identity, the
\* old history with one more entry, the old baseline moved by one hundredth
C24_Continues(old, new, d) ==
    /\ new.id = old.id
    /\ new.missingFrames = 0
    /\ Len(new.history) = Len(old.history) + 1
    /\ SubSeq(new.history, 1, Len(old.history)) = old.history
    /\ new.history[Len(new.history)].x = d.center.x
    /\ new.baseline.w = Round(99 * old.baseline.w + d.box.w, 100)
    /\ new.baseline.y = Round(99 * old.baseline.y + d.box.y, 100)

\* a track unmatched for k <= MAX_MISSING_FRAMES frames in a row is still tracked
C24_StillTracked ==
    \A id \in Ids(trackedFaces) :
        (id \in DOMAIN misses' /\ misses'[id] <= MAX_MISSING_FRAMES)
            => id \in Ids(trackedFaces')

\* found again after 1..MAX_MISSING_FRAMES unmatched frames, it is the same track
C24_FoundAgain ==
    \A t \in 1..Len(trackedFaces) : \A i \in 1..Len(detectedObjects') :
        (/\ misses[trackedFaces[t].id] \in 1..MAX_MISSING_FRAMES
         /\ C24_AtPositionOf(detectedObjects'[i], trackedFaces[t]))
            => /\ trackedFaces[t].missingFrames = misses[trackedFaces[t].id]
               /\ detectedObjects'[i].matched
               /\ detectedObjects'[i].trackId = trackedFaces[t].id
               /\ nextPersonId' = nextPersonId
               /\ \E u \in 1..Len(trackedFaces') :
                     C24_Continues(trackedFaces[t], trackedFaces'[u], detectedObjects'[i])

\* the identity of a removed track is given to no detection again
C24_RemovedForGood ==
    \A i \in 1..Len(detectedObjects') :
        /\ detectedObjects'[i].trackId \notin retired
        /\ detectedObjects'[i].trackId \notin (assignedIds \ Ids(trackedFaces))

\* C24: a track unmatched for k consecutive frames, 1 <= k <= MAX_MISSING_FRAMES,
\* and then matched stays the same track (identity kept, missing-counter back
\* to 0, history and baseline continued); once a track has been removed, a
\* detection at its old position gets a track with a new identity.
C24_SameTrackUntilRetired ==
    [][PassApplied => (C24_StillTracked /\ C24_FoundAgain /\ C24_RemovedForGood)]_vars

\* a track found again after exactly MAX_MISSING_FRAMES frames without a match
C24_Witness ==
    \E t \in 1..Len(trackedFaces) :
        /\ trackedFaces[t].missingFrames = 0
        /\ Len(trackedFaces[t].history) = 2
        /\ trackedFaces[t].history[2].time - trackedFaces[t].history[1].time
              = MAX_MISSING_FRAMES + 1
        /\ Len(applied) = trackedFaces[t].history[2].time

\* every emitted track whose history has fewer than 3 entries is "Listening"
C25_ShortHistoryListening ==
    \A i \in 1..Len(participants) :
        (Len(trackedFaces) = Len(participants) /\ Len(trackedFaces[i].history) < 3)
            => participants[i].bodyLanguage = "Listening"

\* the label a pass emitted for the track of identity id
C25_Emits(id, label) ==
    \E i \in 1..Len(participants') :
        participants'[i].id = id /\ participants'[i].bodyLanguage = label

\* a track is emitted as "Listening" by the pass that creates it and by the
\* first pass after that in which it is matched
C25_FirstTwoFramesListening ==
    PassApplied =>
        /\ \A id \in CreatedIds(detectedObjects') : C25_Emits(id, "Listening")
        /\ \A t \in 1..Len(trackedFaces) :
              (/\ Len(trackedFaces[t].history) = 1
               /\ trackedFaces[t].id \in MatchedIds(detectedObjects'))
                  => C25_Emits(trackedFaces[t].id, "Listening")

\* C25: determineBodyLanguage returns "Listening" whenever the history has fewer
\* than 3 entries, whatever the metrics, box and baseline; consequently a track
\* emits "Listening" in the frame it is created and in the first frame after
\* that in which it is matched.
C25_ListeningAtFirst ==
    /\ []C25_ShortHistoryListening
    /\ [][C25_FirstTwoFramesListening]_vars

\* the history entries avgMove is computed over, and the steps between them
C26_Recent == LastN(classifierInput.history, 5)

C26_Steps == Len(C26_Recent) - 1

\* the sum of |dx| + |dy| over the steps divided by the number of steps is
\* above (below) a threshold given in pixels
C26_PerStepAbove(px) == Moved(C26_Recent) > px * Scale * C26_Steps

C26_PerStepBelow(px) == Moved(C26_Recent) < px * Scale * C26_Steps

\* C26: avgMove is the average displacement per step over the most recent (at
\* most 5) history entries, the sum of |dx| + |dy| over consecutive entries
\* divided by the number of steps, and the Fidgeting (avgMove > 15) and Arms
\* Crossed (avgMove < 2) thresholds are applied to that average.
C26_AvgMovePerStep ==
    (classifierLabel # "" /\ Len(classifierInput.history) >= 3)
        => /\ classifierLabel = "Fidgeting"
                <=> (C26_PerStepAbove(15) /\ classifierInput.metrics.stress > 60 * Scale)
           /\ classifierLabel = "Arms Crossed" => C26_PerStepBelow(2)

\* C27: in every emitted snapshot badSign is true exactly when the stress the
\* snapshot reports is strictly above 75 and the attention it reports is
\* strictly below 35.
C27_BadSignFromReported ==
    \A e \in emitted \cup Emitted(participants) :
        e.badSign <=> (e.stress > 75 * Scale /\ e.attention < 35 * Scale)

\* snapshots were emitted with the bad sign, and without it for a stress
\* above 75 together with an attention of 35 or more
C27_Witness ==
    /\ \E e \in emitted : e.badSign
    /\ \E e \in emitted : e.stress > 75 * Scale /\ e.attention >= 35 * Scale /\ ~ e.badSign

\* clamp(0, 100, 50 + (10 if attention > 70) + (15 if -20 < pitch < -5)
\*               + 40 x surprised + 10 x happy), in thousandths, for the input
\* of the last update and a given attention
C28_Curiosity(attention) ==
    LET input == updateCall.input
        sum   == 50 * Milli
                 + (IF attention > 70 * Milli THEN 10 * Milli ELSE 0)
                 + (IF -20 < input.pitch /\ input.pitch < -5 THEN 15 * Milli ELSE 0)
                 + 400 * input.expressionConfidence.surprised
                 + 100 * input.expressionConfidence.happy
    IN  Max(0, Min(100 * Milli, sum))

C29_Term(weight, percent) == 10 * weight * percent

C29_Clamp(v) == IF v < 0 THEN 0 ELSE IF v > 100 * Scale THEN 100 * Scale ELSE v

\* C29: the raw metrics of a detection are attention = clamp(0,100, 100 x (0.8
\* neutral + 0.5 surprised + 0.2 happy) - 100 x (0.3 sad + 0.3 fearful + 0.2
\* disgusted)), stress = clamp(0,100, 100 x (angry + fearful + disgusted + 0.5
\* sad)) and curiosity = clamp(0,100, 100 x (surprised + happy)), for every
\* combination of expression confidences.
C29_RawMetrics ==
    rawMetrics # << >>
        => LET e == faceExpressions
           IN  /\ rawMetrics[1].attention
                     = C29_Clamp((C29_Term(8, e.neutral) + C29_Term(5, e.surprised)
                                     + C29_Term(2, e.happy))
                                 - (C29_Term(3, e.sad) + C29_Term(3, e.fearful)
                                     + C29_Term(2, e.disgusted)))
               /\ rawMetrics[1].stress
                     = C29_Clamp(C29_Term(10, e.angry) + C29_Term(10, e.fearful)
                                 + C29_Term(10, e.disgusted) + C29_Term(5, e.sad))
               /\ rawMetrics[1].curiosity
                     = C29_Clamp(C29_Term(10, e.surprised) + C29_Term(10, e.happy))

\* metrics computed for a face with none of the three sums clamped
C29_Witness ==
    /\ rawMetrics # << >>
    /\ faceExpressions.sad = 50
    /\ rawMetrics[1].attention = 40 * Scale
    /\ rawMetrics[1].stress = 75 * Scale
    /\ rawMetrics[1].curiosity = 50 * Scale

\* the filter object of the last call as the call left it
C30_After == filters[filterCall.filter]

\* the call took the branch of lines 21-22: estimate := measurement,
\* covariance := the measurement noise Q
C30_Initialized ==
    /\ C30_After.isNaN = IsNaN(filterCall.measurement)
    /\ ~ IsNaN(filterCall.measurement) => C30_After.x = filterCall.measurement
    /\ C30_After.cov = filterCall.before.Q

\* the call took the branch of lines 24-29 on a number: the prediction is the
\* old estimate, its covariance the old one plus the process noise R, and the
\* correction moves both by the gain
C30_PredictedAndCorrected ==
    LET b       == filterCall.before
        predCov == b.cov + b.R
        K       == Round(predCov * GainScale, predCov + b.Q)
    IN  /\ ~ b.isNaN
        /\ C30_After.cov = predCov - Round(K * predCov, GainScale)
        /\ ~ IsNaN(filterCall.measurement)
              => C30_After.x = b.x + Round(K * (filterCall.measurement - b.x), GainScale)

\* C30: the first filter call of an instance returns exactly the measurement
\* and sets the covariance to the configured measurement noise; initialization
\* happens only on that first call, and every later call performs a predict
\* step (estimate unchanged, covariance increased by the process noise) and a
\* correction step, never computing with an estimate that is not a number.
C30_InitializedOnceOnly ==
    filterCall.filter # 0
        => IF filterCall.nth = 1
           THEN filterCall.before.isNaN /\ C30_Initialized
           ELSE C30_PredictedAndCorrected

\* C31: after stopScreenShare has run, and until startScreenShare starts the
\* next interval, the track set is empty and the participants list is the
\* empty one, also if an analyzeFrame invocation was awaiting its detection
\* when stopScreenShare ran or an interval handle had been overwritten.
C31_StoppedStaysEmpty ==
    (nextHandle > 1 /\ ~ isScreenSharing)
        => (trackedFaces = << >> /\ participants = << >>)

\* C32: a frame pass that runs while aiSuggestionsEnabled is off adds no entry
\* to the suggestions list, whatever the toggle was when the interval was
\* started.
C32_OffMeansNoSuggestion ==
    [][(PassApplied /\ ~ aiSuggestionsEnabled)
          => (newSuggestions' = << >> /\ suggestions' = suggestions)]_vars

\* C33: a pass that starts on the empty track set makes one track per
\* detection, in detection-list order, with consecutive new identities: a
\* track created in the pass is not a match candidate for a later detection
\* of the same pass, however close the two detections are.
C33_OnePerDetection ==
    /\ Len(trackedFaces') = Len(detectedObjects')
    /\ nextPersonId' = nextPersonId + Len(detectedObjects')
    /\ \A i \in 1..Len(detectedObjects') :
          /\ trackedFaces'[i].id = nextPersonId + i - 1
          /\ trackedFaces'[i].box = detectedObjects'[i].box
          /\ detectedObjects'[i].trackId = trackedFaces'[i].id
          /\ ~ detectedObjects'[i].matched

C33_CreatedNotCandidates ==
    [][(PassApplied /\ trackedFaces = << >>) => C33_OnePerDetection]_vars

\* two tracks made by one pass from detections 100 px apart
C33_Witness ==
    /\ Len(detectedObjects) = 2
    /\ Len(trackedFaces) = 2
    /\ nextPersonId = 3
    /\ \A i \in 1..2 : /\ trackedFaces[i].id = i
                       /\ Len(trackedFaces[i].history) = 1
                       /\ trackedFaces[i].box = detectedObjects[i].box
    /\ getDistanceSq(TrackCenter(trackedFaces[1]).x, TrackCenter(trackedFaces[1]).y,
                     TrackCenter(trackedFaces[2]).x, TrackCenter(trackedFaces[2]).y)
          < ThresholdSq

\* C34: within one pass the track chosen for a detection is the one the
\* search of lines 343-357 finds among the track boxes as they were when the
\* pass started; box smoothing applied for an earlier detection of the pass
\* does not change the choice.
C34_AtStart == AgeTracks(trackedFaces)

C34_ChosenAtStart(d) ==
    LET b == BestMatch(C34_AtStart, d)
    IN  /\ d.matched = (b # 0)
        /\ d.matched => d.trackId = C34_AtStart[b].id

C34_ChoiceFromStartBoxes ==
    [][PassApplied
          => \A i \in 1..Len(detectedObjects') : C34_ChosenAtStart(detectedObjects'[i])]_vars

\* C35: the session log never holds more than 50 entries, however frame
\* passes and audio toxicity results interleave.
C35_LogsCapped == Len(logs) <= LOGS_CAP

\* C36: the suggestions list never holds more than 10 entries; a frame pass
\* puts at most the 4 suggestions it generated last before all older entries,
\* and a pass that generated none leaves the list as it was.
C36_Kept == IF Len(newSuggestions') < NEW_SUGGESTIONS_KEPT
            THEN Len(newSuggestions') ELSE NEW_SUGGESTIONS_KEPT

C36_Contribution ==
    /\ \A j \in 1..C36_Kept :
          suggestions'[j] = newSuggestions'[Len(newSuggestions') - C36_Kept + j]
    /\ \A j \in 1..Len(suggestions) :
          C36_Kept + j <= SUGGESTIONS_CAP => suggestions'[C36_Kept + j] = suggestions[j]
    /\ Len(suggestions') = IF C36_Kept + Len(suggestions) < SUGGESTIONS_CAP
                           THEN C36_Kept + Len(suggestions) ELSE SUGGESTIONS_CAP
    /\ newSuggestions' = << >> => suggestions' = suggestions

C36_SuggestionsCapped ==
    /\ [](Len(suggestions) <= SUGGESTIONS_CAP)
    /\ [][(PassApplied => C36_Contribution)
            /\ (suggestions' # suggestions => PassApplied)]_vars

\* a pass that generated 6 suggestions, on a list that is full
C36_Witness ==
    /\ Len(newSuggestions) > NEW_SUGGESTIONS_KEPT
    /\ Len(suggestions) = SUGGESTIONS_CAP
    /\ \A j \in 1..NEW_SUGGESTIONS_KEPT :
          suggestions[j] = newSuggestions[Len(newSuggestions) - NEW_SUGGESTIONS_KEPT + j]

\* C37: in MeetingAgent at most one requestAnimationFrame loop is active at
\* a time (of the callbacks waiting to run, at most one will pass the guards
\* of analyzeFrame and request the next), and between stopCapture and the
\* start of the next capture no data point is appended.
C37_ActiveLoops == IF processingRef /\ ~ paused THEN frameRequests ELSE 0

C37_OneLoop ==
    /\ [](C37_ActiveLoops <= 1)
    /\ [][data' # data => processingRef']_vars
====
